---- MODULE Spec2Model ----
(***************************************************************************)
(* A model of the go-chess rules engine (package engine): the board, the   *)
(* Game aggregate, move parsing, legality, move application, status        *)
(* derivation and FEN loading, translated from the Go source.               *)
(*                                                                         *)
(* Calls that do not return are outcomes of the model: "overflow" is the   *)
(* Go runtime's fatal stack overflow (isInCheck and canCastle* calling     *)
(* each other on the same game without bound), "hang" is isPathClear's     *)
(* scan leaving the board (every off-board square reads as empty, so the   *)
(* loop runs until the 64-bit square counter wraps around).                *)
(***************************************************************************)
EXTENDS Integers, Sequences, FiniteSets, TLC

(* ------------------------------------------------------------------ *)
(* Colors, piece types, move types, statuses (board.go, game.go)       *)
(* ------------------------------------------------------------------ *)
None == "none"
White == "white"
Black == "black"

Empty == "empty"
Pawn == "pawn"
Rook == "rook"
Knight == "knight"
Bishop == "bishop"
Queen == "queen"
King == "king"

Normal == "normal"
Capture == "capture"
Castling == "castling"
EnPassant == "en_passant"
Promotion == "promotion"

InProgress == "in_progress"
Check == "check"
WhiteWins == "white_wins"
BlackWins == "black_wins"
Draw == "draw"

(* The squares the rules name; a1 = 0 ... h8 = 63. *)
A1 == 0
C1 == 2
D1 == 3
E1 == 4
F1 == 5
G1 == 6
H1 == 7
A8 == 56
C8 == 58
D8 == 59
E8 == 60
F8 == 61
G8 == 62
H8 == 63
NoSquare == -1

Squares == 0..63

File(s) == s % 8
Rank(s) == s \div 8

abs(x) == IF x < 0 THEN -x ELSE x
sign(x) == IF x > 0 THEN 1 ELSE IF x < 0 THEN -1 ELSE 0

(* Piece{Type, Color}; Piece{Type: Empty} has the zero Color. *)
Pc(t, c) == [Type |-> t, Color |-> c]
EmptyPiece == Pc(Empty, None)
IsEmpty(p) == p.Type = Empty

Opponent(c) == IF c = White THEN Black ELSE White

(* ------------------------------------------------------------------ *)
(* Board                                                               *)
(* ------------------------------------------------------------------ *)
GetPiece(b, sq) == IF sq < 0 \/ sq > 63 THEN EmptyPiece ELSE b[sq]

SetPiece(b, sq, piece) == IF sq >= 0 /\ sq <= 63 THEN [b EXCEPT ![sq] = piece] ELSE b

BackRank == <<Rook, Knight, Bishop, Queen, King, Bishop, Knight, Rook>>

SetupStartingPosition ==
    [sq \in Squares |->
        CASE Rank(sq) = 0 -> Pc(BackRank[File(sq) + 1], White)
          [] Rank(sq) = 1 -> Pc(Pawn, White)
          [] Rank(sq) = 6 -> Pc(Pawn, Black)
          [] Rank(sq) = 7 -> Pc(BackRank[File(sq) + 1], Black)
          [] OTHER -> EmptyPiece]

NewBoard == SetupStartingPosition

(* ------------------------------------------------------------------ *)
(* Move and Game values                                                *)
(* ------------------------------------------------------------------ *)
Mv(from, to, type, piece, captured, promotion) ==
    [From |-> from, To |-> to, Type |-> type, Piece |-> piece,
     Captured |-> captured, Promotion |-> promotion]

(* Move{From, To, Type: Normal, Piece}: what the generators build. *)
GenMove(from, to, piece) == Mv(from, to, Normal, piece, EmptyPiece, Empty)

ZeroMove == Mv(0, 0, Normal, EmptyPiece, EmptyPiece, Empty)

AllRights ==
    [WhiteKingside |-> TRUE, WhiteQueenside |-> TRUE,
     BlackKingside |-> TRUE, BlackQueenside |-> TRUE]

NoRights ==
    [WhiteKingside |-> FALSE, WhiteQueenside |-> FALSE,
     BlackKingside |-> FALSE, BlackQueenside |-> FALSE]

(* NewGame starting the full-move counter at 0. *)
NewGame_CountsFromZero ==
    [board |-> NewBoard,
     activeColor |-> White,
     castlingRights |-> AllRights,
     enPassantSquare |-> NoSquare,
     halfMoveClock |-> 0,
     moveCount |-> 0,
     moveHistory |-> <<>>,
     status |-> InProgress,
     startedFromFEN |-> FALSE,
     startingFEN |-> ""]

NewGame ==
    [board |-> NewBoard,
     activeColor |-> White,
     castlingRights |-> AllRights,
     enPassantSquare |-> NoSquare,
     halfMoveClock |-> 0,
     moveCount |-> 1,
     moveHistory |-> <<>>,
     status |-> InProgress,
     startedFromFEN |-> FALSE,
     startingFEN |-> ""]

(* copy: a fresh Game with its own board and history; the FEN fields are *)
(* not copied.                                                           *)
copy(G) == [G EXCEPT !.startedFromFEN = FALSE, !.startingFEN = ""]

(* ------------------------------------------------------------------ *)
(* Move application                                                    *)
(* ------------------------------------------------------------------ *)
executeCastling(G, move) ==
    LET b1 == SetPiece(SetPiece(G.board, move.To, move.Piece), move.From, EmptyPiece)
        kingside == File(move.To) > File(move.From)
        rookFrom == IF kingside
                    THEN (IF G.activeColor = White THEN H1 ELSE H8)
                    ELSE (IF G.activeColor = White THEN A1 ELSE A8)
        rookTo == IF kingside
                  THEN (IF G.activeColor = White THEN F1 ELSE F8)
                  ELSE (IF G.activeColor = White THEN D1 ELSE D8)
        rook == GetPiece(b1, rookFrom)
    IN [G EXCEPT !.board = SetPiece(SetPiece(b1, rookTo, rook), rookFrom, EmptyPiece)]

executeEnPassant(G, move) ==
    LET b1 == SetPiece(SetPiece(G.board, move.To, move.Piece), move.From, EmptyPiece)
        capturedSquare == IF G.activeColor = White THEN move.To - 8 ELSE move.To + 8
    IN [G EXCEPT !.board = SetPiece(b1, capturedSquare, EmptyPiece)]

updateCastlingRights(G, move) ==
    LET r0 == G.castlingRights
        r1 == IF move.Piece.Type = King
              THEN (IF move.Piece.Color = White
                    THEN [r0 EXCEPT !.WhiteKingside = FALSE, !.WhiteQueenside = FALSE]
                    ELSE [r0 EXCEPT !.BlackKingside = FALSE, !.BlackQueenside = FALSE])
              ELSE r0
        r2 == IF move.Piece.Type = Rook
              THEN CASE move.From = H1 -> [r1 EXCEPT !.WhiteKingside = FALSE]
                     [] move.From = A1 -> [r1 EXCEPT !.WhiteQueenside = FALSE]
                     [] move.From = H8 -> [r1 EXCEPT !.BlackKingside = FALSE]
                     [] move.From = A8 -> [r1 EXCEPT !.BlackQueenside = FALSE]
                     [] OTHER -> r1
              ELSE r1
        r3 == IF move.Type = Capture /\ move.Captured.Type = Rook
              THEN CASE move.To = H1 -> [r2 EXCEPT !.WhiteKingside = FALSE]
                     [] move.To = A1 -> [r2 EXCEPT !.WhiteQueenside = FALSE]
                     [] move.To = H8 -> [r2 EXCEPT !.BlackKingside = FALSE]
                     [] move.To = A8 -> [r2 EXCEPT !.BlackQueenside = FALSE]
                     [] OTHER -> r2
              ELSE r2
    IN [G EXCEPT !.castlingRights = r3]

updateEnPassantSquare(G, move) ==
    [G EXCEPT !.enPassantSquare =
        IF move.Piece.Type = Pawn /\ abs(Rank(move.To) - Rank(move.From)) = 2
        THEN (move.From + move.To) \div 2
        ELSE NoSquare]

updateHalfMoveClock(G, move) ==
    [G EXCEPT !.halfMoveClock =
        IF move.Piece.Type = Pawn \/ move.Type = Capture THEN 0 ELSE G.halfMoveClock + 1]

(* The "regular move" part shared by makeMove and makeMoveWithoutStatusUpdate. *)
regularMove(G, move) ==
    LET b1 == SetPiece(SetPiece(G.board, move.To, move.Piece), move.From, EmptyPiece)
        b2 == IF move.Type = Promotion
              THEN SetPiece(b1, move.To, Pc(move.Promotion, move.Piece.Color))
              ELSE b1
    IN updateHalfMoveClock(
         updateEnPassantSquare(
           updateCastlingRights([G EXCEPT !.board = b2], move), move), move)

makeMoveWithoutStatusUpdate(G, move) ==
    IF move.Type = Castling
    THEN updateCastlingRights(executeCastling(G, move), move)
    ELSE IF move.Type = EnPassant
    THEN executeEnPassant(G, move)
    ELSE [regularMove(G, move) EXCEPT !.activeColor = Opponent(G.activeColor)]

makeMove(G, move) ==
    IF move.Type = Castling
    THEN updateHalfMoveClock(
           updateEnPassantSquare(
             updateCastlingRights(executeCastling(G, move), move), move), move)
    ELSE IF move.Type = EnPassant
    THEN executeEnPassant(G, move)
    ELSE regularMove(G, move)

(* ------------------------------------------------------------------ *)
(* Pseudo-legal move generation                                        *)
(* ------------------------------------------------------------------ *)
generatePawnMoves(G, from) ==
    LET piece == GetPiece(G.board, from)
        color == piece.Color
        direction == IF color = Black THEN -1 ELSE 1
        startRank == IF color = Black THEN 6 ELSE 1
        rank == from \div 8
        file == from % 8
        toSquare == (rank + direction) * 8 + file
        toSquare2 == (rank + 2 * direction) * 8 + file
        forward ==
            IF rank + direction >= 0 /\ rank + direction < 8
               /\ IsEmpty(GetPiece(G.board, toSquare))
            THEN <<GenMove(from, toSquare, piece)>>
                 \o (IF rank = startRank /\ IsEmpty(GetPiece(G.board, toSquare2))
                     THEN <<GenMove(from, toSquare2, piece)>>
                     ELSE <<>>)
            ELSE <<>>
        capture(fileOffset) ==
            LET newFile == file + fileOffset
                newRank == rank + direction
                to == newRank * 8 + newFile
                targetPiece == GetPiece(G.board, to)
            IN IF newFile >= 0 /\ newFile < 8 /\ newRank >= 0 /\ newRank < 8
                  /\ ~IsEmpty(targetPiece) /\ targetPiece.Color # color
               THEN <<GenMove(from, to, piece)>>
               ELSE <<>>
    IN forward \o capture(-1) \o capture(1)

RECURSIVE slideRay(_, _, _, _, _)
(* One direction of generateSlidingMoves, from step i on. *)
slideRay(G, from, piece, dir, i) ==
    LET newRank == (from \div 8) + dir[1] * i
        newFile == (from % 8) + dir[2] * i
        toSquare == newRank * 8 + newFile
        targetPiece == GetPiece(G.board, toSquare)
    IN IF i >= 8 \/ newRank < 0 \/ newRank >= 8 \/ newFile < 0 \/ newFile >= 8
       THEN <<>>
       ELSE IF IsEmpty(targetPiece)
       THEN <<GenMove(from, toSquare, piece)>> \o slideRay(G, from, piece, dir, i + 1)
       ELSE IF targetPiece.Color # piece.Color
       THEN <<GenMove(from, toSquare, piece)>>
       ELSE <<>>

RECURSIVE slideDirs(_, _, _, _, _)
slideDirs(G, from, piece, directions, d) ==
    IF d > Len(directions) THEN <<>>
    ELSE slideRay(G, from, piece, directions[d], 1)
         \o slideDirs(G, from, piece, directions, d + 1)

generateSlidingMoves(G, from, directions) ==
    slideDirs(G, from, GetPiece(G.board, from), directions, 1)

RookDirs == <<<<0, 1>>, <<0, -1>>, <<1, 0>>, <<-1, 0>>>>
BishopDirs == <<<<1, 1>>, <<1, -1>>, <<-1, 1>>, <<-1, -1>>>>
QueenDirs == RookDirs \o BishopDirs
knightMoves == <<<<2, 1>>, <<2, -1>>, <<-2, 1>>, <<-2, -1>>,
                 <<1, 2>>, <<1, -2>>, <<-1, 2>>, <<-1, -2>>>>
kingMoves == QueenDirs

generateRookMoves(G, from) == generateSlidingMoves(G, from, RookDirs)
generateBishopMoves(G, from) == generateSlidingMoves(G, from, BishopDirs)
generateQueenMoves(G, from) == generateSlidingMoves(G, from, QueenDirs)

RECURSIVE stepMoves(_, _, _, _, _)
(* The loop of generateKnightMoves and generateKingMoves over an offset list. *)
stepMoves(G, from, piece, offsets, k) ==
    IF k > Len(offsets) THEN <<>>
    ELSE LET newRank == (from \div 8) + offsets[k][1]
             newFile == (from % 8) + offsets[k][2]
             toSquare == newRank * 8 + newFile
             targetPiece == GetPiece(G.board, toSquare)
         IN (IF newRank >= 0 /\ newRank < 8 /\ newFile >= 0 /\ newFile < 8
                /\ (IsEmpty(targetPiece) \/ targetPiece.Color # piece.Color)
             THEN <<GenMove(from, toSquare, piece)>>
             ELSE <<>>)
            \o stepMoves(G, from, piece, offsets, k + 1)

generateKnightMoves(G, from) ==
    stepMoves(G, from, GetPiece(G.board, from), knightMoves, 1)

(* parseCastlingMove: the king squares of the side to move. *)
parseCastlingMove(G, kingside) ==
    LET kingFrom == IF G.activeColor = White THEN E1 ELSE E8
        kingTo == IF G.activeColor = White
                  THEN (IF kingside THEN G1 ELSE C1)
                  ELSE (IF kingside THEN G8 ELSE C8)
        king == GetPiece(G.board, kingFrom)
    IN IF king.Type # King \/ king.Color # G.activeColor
       THEN [err |-> "king not in position for castling", move |-> ZeroMove]
       ELSE [err |-> "", move |-> Mv(kingFrom, kingTo, Castling, king, EmptyPiece, Empty)]

(* Results of the check / castling routines: a boolean, or the call never *)
(* returns because the routines re-enter each other without bound.       *)
T == "true"
F == "false"
Overflow == "overflow"

(* Generator result: the moves, or the overflow of a nested call. *)
Moves(ms) == [overflow |-> FALSE, moves |-> ms]
NoMoves == [overflow |-> TRUE, moves |-> <<>>]

RECURSIVE isInCheck(_, _, _)
RECURSIVE scanAttackers(_, _, _, _)
RECURSIVE generatePseudoLegalMoves(_, _, _, _)
RECURSIVE generateKingMoves(_, _, _)
RECURSIVE generateCastlingMoves(_, _, _)
RECURSIVE canCastleKingside(_, _, _)
RECURSIVE canCastleQueenside(_, _, _)
RECURSIVE castlePath(_, _, _, _, _)
RECURSIVE wouldBeInCheckAfterMove(_, _, _)

(* busy: the colors whose isInCheck call on this very game is on the call *)
(* stack. Nothing changes the game between a call and a nested call with  *)
(* the same color, so the nested call repeats the outer one: unbounded    *)
(* recursion, which the Go runtime ends with a fatal stack overflow.      *)
isInCheck(G, color, busy) ==
    LET kings == {sq \in Squares :
                    G.board[sq].Type = King /\ G.board[sq].Color = color}
        kingSquare == IF kings = {} THEN NoSquare
                      ELSE CHOOSE sq \in kings : \A o \in kings : sq <= o
        opponentColor == IF color = White THEN Black ELSE White
        theirs == {sq \in Squares :
                     ~IsEmpty(G.board[sq]) /\ G.board[sq].Color = opponentColor}
    IN IF color \in busy THEN Overflow
       ELSE IF kingSquare = NoSquare THEN F
       ELSE scanAttackers(G, kingSquare, theirs, busy \cup {color})

(* The loop of isInCheck over the opponent's pieces, in the order of the *)
(* squares: it returns at the first piece with a move onto kingSquare.   *)
(* squares holds the opponent's pieces the loop has not reached yet.     *)
scanAttackers(G, kingSquare, squares, busy) ==
    LET sq == CHOOSE s \in squares : \A o \in squares : s <= o
        verdict(gen) ==
            IF gen.overflow THEN Overflow
            ELSE IF \E i \in 1..Len(gen.moves) : gen.moves[i].To = kingSquare THEN T
            ELSE scanAttackers(G, kingSquare, squares \ {sq}, busy)
    IN IF squares = {} THEN F
       ELSE verdict(generatePseudoLegalMoves(G, sq, G.board[sq], busy))

generatePseudoLegalMoves(G, from, piece, busy) ==
    CASE piece.Type = Pawn -> Moves(generatePawnMoves(G, from))
      [] piece.Type = Rook -> Moves(generateRookMoves(G, from))
      [] piece.Type = Knight -> Moves(generateKnightMoves(G, from))
      [] piece.Type = Bishop -> Moves(generateBishopMoves(G, from))
      [] piece.Type = Queen -> Moves(generateQueenMoves(G, from))
      [] piece.Type = King -> generateKingMoves(G, from, busy)
      [] OTHER -> Moves(<<>>)

generateKingMoves(G, from, busy) ==
    LET steps == stepMoves(G, from, GetPiece(G.board, from), kingMoves, 1)
        withCastling(castling) ==
            IF castling.overflow THEN NoMoves
            ELSE Moves(steps \o castling.moves)
    IN withCastling(generateCastlingMoves(G, from, busy))

generateCastlingMoves(G, from, busy) ==
    LET color == GetPiece(G.board, from).Color
        expectedKingSquare == IF color = Black THEN E8 ELSE E1
        castle(can, parsed) ==
            IF can = T /\ parsed.err = "" THEN <<parsed.move>> ELSE <<>>
        both(ks, qs) ==
            IF ks = Overflow THEN NoMoves
            ELSE IF qs = Overflow THEN NoMoves
            ELSE Moves(castle(ks, parseCastlingMove(G, TRUE))
                       \o castle(qs, parseCastlingMove(G, FALSE)))
    IN IF from # expectedKingSquare THEN Moves(<<>>)
       ELSE both(canCastleKingside(G, color, busy), canCastleQueenside(G, color, busy))

(* The last loop of canCastleKingside / canCastleQueenside: the king's    *)
(* steps from kingSquare towards its destination, n steps left.          *)
castlePath(G, color, kingSquare, step, n) ==
    LET square == kingSquare + step * (3 - n)
        tempMove == GenMove(kingSquare, square, GetPiece(G.board, kingSquare))
        next(w) == IF w = Overflow THEN Overflow
                   ELSE IF w = T THEN F
                   ELSE castlePath(G, color, kingSquare, step, n - 1)
    IN IF n = 0 THEN T
       ELSE next(wouldBeInCheckAfterMove(G, tempMove, color))

(* The tests canCastleKingside and canCastleQueenside share once the     *)
(* right is held and the squares between king and rook are empty.        *)
castleUnlessChecked(inCheck, path) ==
    IF inCheck = Overflow THEN Overflow
    ELSE IF inCheck = T THEN F
    ELSE path

(* canCastleKingside without the loop over the squares the king crosses. *)
canCastleKingside_IgnoresPath(G, color, busy) ==
    LET kingSquare == IF color = Black THEN E8 ELSE E1
        rookSquare == IF color = Black THEN H8 ELSE H1
    IN IF color = White /\ ~G.castlingRights.WhiteKingside THEN F
       ELSE IF color = Black /\ ~G.castlingRights.BlackKingside THEN F
       ELSE IF \E square \in (kingSquare + 1)..(rookSquare - 1) :
                  ~IsEmpty(GetPiece(G.board, square)) THEN F
       ELSE castleUnlessChecked(isInCheck(G, color, busy), T)

canCastleKingside(G, color, busy) ==
    LET kingSquare == IF color = Black THEN E8 ELSE E1
        rookSquare == IF color = Black THEN H8 ELSE H1
    IN IF color = White /\ ~G.castlingRights.WhiteKingside THEN F
       ELSE IF color = Black /\ ~G.castlingRights.BlackKingside THEN F
       ELSE IF \E square \in (kingSquare + 1)..(rookSquare - 1) :
                  ~IsEmpty(GetPiece(G.board, square)) THEN F
       ELSE castleUnlessChecked(isInCheck(G, color, busy),
                                castlePath(G, color, kingSquare, 1, 2))

canCastleQueenside(G, color, busy) ==
    LET kingSquare == IF color = Black THEN E8 ELSE E1
        rookSquare == IF color = Black THEN A8 ELSE A1
    IN IF color = White /\ ~G.castlingRights.WhiteQueenside THEN F
       ELSE IF color = Black /\ ~G.castlingRights.BlackQueenside THEN F
       ELSE IF \E square \in (rookSquare + 1)..(kingSquare - 1) :
                  ~IsEmpty(GetPiece(G.board, square)) THEN F
       ELSE castleUnlessChecked(isInCheck(G, color, busy),
                                castlePath(G, color, kingSquare, -1, 2))

(* The move is tried on a copy: a new game, with no call on its stack. *)
wouldBeInCheckAfterMove(G, move, kingColor) ==
    isInCheck(makeMoveWithoutStatusUpdate(copy(G), move), kingColor, {})

canCastle(G, kingside) ==
    IF kingside THEN canCastleKingside(G, G.activeColor, {})
    ELSE canCastleQueenside(G, G.activeColor, {})

(* ------------------------------------------------------------------ *)
(* Legality                                                            *)
(* ------------------------------------------------------------------ *)
Hang == "hang"

RECURSIVE pathScan(_, _, _, _)
(* The loop of isPathClear. Once current has left the board it moves    *)
(* away from `to` over squares that all read as empty: the loop does   *)
(* not end before the 64-bit counter wraps.                             *)
pathScan(G, current, to, step) ==
    IF current = to THEN T
    ELSE IF current < 0 \/ current > 63 THEN Hang
    ELSE IF ~IsEmpty(GetPiece(G.board, current)) THEN F
    ELSE pathScan(G, current + step, to, step)

isPathClear(G, from, to) ==
    LET fileStep == sign(File(to) - File(from))
        rankStep == sign(Rank(to) - Rank(from))
    IN pathScan(G, from + fileStep + rankStep * 8, to, fileStep + rankStep * 8)

isPawnMoveLegal(G, move) ==
    LET direction == IF move.Piece.Color = Black THEN -1 ELSE 1
        fromRank == Rank(move.From)
        toRank == Rank(move.To)
        fileDiff == abs(File(move.To) - File(move.From))
        target == GetPiece(G.board, move.To)
    IN \/ /\ fileDiff = 0
          /\ \/ toRank - fromRank = direction /\ IsEmpty(target)
             \/ /\ \/ fromRank = 1 /\ move.Piece.Color = White
                   \/ fromRank = 6 /\ move.Piece.Color = Black
                /\ toRank - fromRank = 2 * direction
                /\ IsEmpty(target)
       \/ /\ fileDiff = 1
          /\ toRank - fromRank = direction
          /\ \/ ~IsEmpty(target) /\ target.Color # move.Piece.Color
             \/ move.Type = EnPassant /\ move.To = G.enPassantSquare

isRookMoveLegal(G, move) ==
    LET aligned(clear) ==
            IF clear # T THEN clear
            ELSE IF Rank(move.From) = Rank(move.To) \/ File(move.From) = File(move.To)
            THEN T ELSE F
    IN aligned(isPathClear(G, move.From, move.To))

isKnightMoveLegal(G, move) ==
    LET fileDiff == abs(File(move.To) - File(move.From))
        rankDiff == abs(Rank(move.To) - Rank(move.From))
    IN (fileDiff = 2 /\ rankDiff = 1) \/ (fileDiff = 1 /\ rankDiff = 2)

isBishopMoveLegal(G, move) ==
    LET fileDiff == abs(File(move.To) - File(move.From))
        rankDiff == abs(Rank(move.To) - Rank(move.From))
    IN IF fileDiff = rankDiff THEN isPathClear(G, move.From, move.To) ELSE F

isQueenMoveLegal(G, move) ==
    LET orBishop(rook) == IF rook = F THEN isBishopMoveLegal(G, move) ELSE rook
    IN orBishop(isRookMoveLegal(G, move))

isKingMoveLegal(G, move) ==
    LET fileDiff == abs(File(move.To) - File(move.From))
        rankDiff == abs(Rank(move.To) - Rank(move.From))
        target == GetPiece(G.board, move.To)
    IN IF move.Type = Castling THEN canCastle(G, File(move.To) > File(move.From))
       ELSE IF fileDiff > 1 \/ rankDiff > 1 THEN F
       ELSE IF ~IsEmpty(target) /\ target.Color = move.Piece.Color THEN F
       ELSE T

Bool3(b) == IF b THEN T ELSE F

isPseudoLegalMove(G, move) ==
    CASE move.Piece.Type = Pawn -> Bool3(isPawnMoveLegal(G, move))
      [] move.Piece.Type = Rook -> isRookMoveLegal(G, move)
      [] move.Piece.Type = Knight -> Bool3(isKnightMoveLegal(G, move))
      [] move.Piece.Type = Bishop -> isBishopMoveLegal(G, move)
      [] move.Piece.Type = Queen -> isQueenMoveLegal(G, move)
      [] move.Piece.Type = King -> isKingMoveLegal(G, move)
      [] OTHER -> F

(* The end of IsLegalMove: the move is pseudo-legal for its piece and,   *)
(* played on a copy, does not leave the mover's king attacked.           *)
legalOnCopy(pseudo, inCheck) ==
    IF pseudo # T THEN pseudo
    ELSE IF inCheck = Overflow THEN Overflow
    ELSE IF inCheck = T THEN F
    ELSE T

(* IsLegalMove without the refusal of a destination that holds a king. *)
IsLegalMove_AllowsKingCapture(G, move) ==
    LET piece == GetPiece(G.board, move.From)
    IN IF IsEmpty(piece) \/ piece.Color # G.activeColor THEN F
       ELSE legalOnCopy(isPseudoLegalMove(G, move),
                        isInCheck(makeMoveWithoutStatusUpdate(copy(G), move),
                                  G.activeColor, {}))

(* IsLegalMove without the test of the mover's king on the copy. *)
IsLegalMove_IgnoresCheck(G, move) ==
    LET piece == GetPiece(G.board, move.From)
        targetPiece == GetPiece(G.board, move.To)
    IN IF IsEmpty(piece) \/ piece.Color # G.activeColor THEN F
       ELSE IF ~IsEmpty(targetPiece) /\ targetPiece.Type = King THEN F
       ELSE isPseudoLegalMove(G, move)

(* IsLegalMove: "true", "false", or the call does not return. *)
IsLegalMove(G, move) ==
    LET piece == GetPiece(G.board, move.From)
        targetPiece == GetPiece(G.board, move.To)
    IN IF IsEmpty(piece) \/ piece.Color # G.activeColor THEN F
       ELSE IF ~IsEmpty(targetPiece) /\ targetPiece.Type = King THEN F
       ELSE legalOnCopy(isPseudoLegalMove(G, move),
                        isInCheck(makeMoveWithoutStatusUpdate(copy(G), move),
                                  G.activeColor, {}))

RECURSIVE concatFrom(_, _)
(* per[sq].moves for sq, sq+1, ... 63 appended in that order. *)
concatFrom(per, sq) ==
    LET later == {s \in DOMAIN per : s >= sq}
        first == CHOOSE s \in later : \A o \in later : s <= o
    IN IF later = {} THEN <<>> ELSE per[first].moves \o concatFrom(per, first + 1)

(* The inner loop of GetAllLegalMoves: the moves generated for one piece *)
(* that pass IsLegalMove, in the order generated.                        *)
legalAmong(G, gen) ==
    LET keep(legal) ==
            IF gen.overflow \/ \E i \in 1..Len(legal) : legal[i] = Overflow
            THEN NoMoves
            ELSE LET idx == SelectSeq([i \in 1..Len(legal) |-> i],
                                      LAMBDA i : legal[i] = T)
                 IN Moves([k \in 1..Len(idx) |-> gen.moves[idx[k]]])
    IN keep([i \in 1..Len(gen.moves) |-> IsLegalMove(G, gen.moves[i])])

(* GetAllLegalMoves: the loop over the squares in the order rank*8+file, *)
(* keeping the moves of each piece of the side to move that pass         *)
(* IsLegalMove. Every piece is generated and every move is tested, so    *)
(* an overflow anywhere is the overflow of the call.                     *)
GetAllLegalMoves(G) ==
    LET own == {sq \in Squares :
                  ~IsEmpty(G.board[sq]) /\ G.board[sq].Color = G.activeColor}
        collect(kept) ==
            IF \E sq \in own : kept[sq].overflow THEN NoMoves
            ELSE Moves(concatFrom(kept, 0))
    IN collect([sq \in own |->
                  legalAmong(G, generatePseudoLegalMoves(G, sq, G.board[sq], {}))])

(* updateGameStatus: the game with its status set, or the overflow of a *)
(* nested call.                                                        *)
updateGameStatus(G) ==
    LET derive(legalMoves, inCheck) ==
            IF legalMoves.overflow \/ inCheck = Overflow
            THEN [outcome |-> Overflow, game |-> G]
            ELSE [outcome |-> "ok",
                  game |-> [G EXCEPT !.status =
                     IF Len(legalMoves.moves) = 0
                     THEN (IF inCheck = T
                           THEN (IF G.activeColor = White THEN BlackWins ELSE WhiteWins)
                           ELSE Draw)
                     ELSE (IF inCheck = T THEN Check ELSE InProgress)]]
    IN derive(GetAllLegalMoves(G), isInCheck(G, G.activeColor, {}))

(* MakeMove counting a full move after every move, not only Black's.   *)
MakeMove_CountsEveryMove(G, move) ==
    LET played(moved) ==
            [moved EXCEPT
               !.moveHistory = Append(G.moveHistory, move),
               !.activeColor = IF G.activeColor = White THEN Black ELSE White,
               !.moveCount = G.moveCount + 1]
        apply(legal) ==
            IF legal = F THEN [outcome |-> "error", game |-> G]
            ELSE IF legal # T THEN [outcome |-> legal, game |-> G]
            ELSE updateGameStatus(played(makeMove(G, move)))
    IN apply(IsLegalMove(G, move))

(* MakeMove: outcome "ok" (nil), "error" (illegal move), or the call does *)
(* not return ("overflow", "hang"); game is the game afterwards.          *)
MakeMove(G, move) ==
    LET played(moved) ==
            [moved EXCEPT
               !.moveHistory = Append(G.moveHistory, move),
               !.activeColor = IF G.activeColor = White THEN Black ELSE White,
               !.moveCount = IF G.activeColor = White THEN G.moveCount
                             ELSE G.moveCount + 1]
        apply(legal) ==
            IF legal = F THEN [outcome |-> "error", game |-> G]
            ELSE IF legal # T THEN [outcome |-> legal, game |-> G]
            ELSE updateGameStatus(played(makeMove(G, move)))
    IN apply(IsLegalMove(G, move))

(* ------------------------------------------------------------------ *)
(* Strings: bytes, squares, fields                                     *)
(* ------------------------------------------------------------------ *)
Char(s, i) == SubSeq(s, i, i)

LowerCase == "abcdefghijklmnopqrstuvwxyz"
UpperCase == "ABCDEFGHIJKLMNOPQRSTUVWXYZ"
DigitChars == "0123456789"
CharsOf(str) == {Char(str, i) : i \in 1..Len(str)}
IndexIn(str, c) == CHOOSE i \in 1..Len(str) : Char(str, i) = c

(* The byte value of a one-character string, for the characters that  *)
(* move notations and FEN records are written in.                      *)
OrdTable ==
    [c \in CharsOf(LowerCase) \cup CharsOf(UpperCase) \cup CharsOf(DigitChars)
           \cup {" ", "+", "-", "/"} |->
        IF c \in CharsOf(LowerCase) THEN 96 + IndexIn(LowerCase, c)
        ELSE IF c \in CharsOf(UpperCase) THEN 64 + IndexIn(UpperCase, c)
        ELSE IF c \in CharsOf(DigitChars) THEN 47 + IndexIn(DigitChars, c)
        ELSE IF c = " " THEN 32
        ELSE IF c = "+" THEN 43
        ELSE IF c = "-" THEN 45
        ELSE 47]
Ord(c) == OrdTable[c]

(* Byte subtraction: uint8 arithmetic wraps. *)
ByteSub(a, b) == (a - b) % 256

FileChars == <<"a", "b", "c", "d", "e", "f", "g", "h">>
RankChars == <<"1", "2", "3", "4", "5", "6", "7", "8">>

(* Square.String *)
SquareString(sq) ==
    IF sq < 0 \/ sq > 63 THEN "invalid"
    ELSE FileChars[(sq % 8) + 1] \o RankChars[(sq \div 8) + 1]

SquareFromString(str) ==
    LET file == ByteSub(Ord(Char(str, 1)), Ord("a"))
        rank == ByteSub(Ord(Char(str, 2)), Ord("1"))
    IN IF Len(str) # 2 THEN [err |-> "invalid square notation", square |-> 0]
       ELSE IF file < 0 \/ file > 7 \/ rank < 0 \/ rank > 7
       THEN [err |-> "invalid square notation", square |-> 0]
       ELSE [err |-> "", square |-> rank * 8 + file]

(* strings.TrimSpace, for the blank " ". *)
TrimSpace(str) ==
    LET n == Len(str)
        solid == {i \in 1..n : Char(str, i) # " "}
        lo == CHOOSE i \in solid : \A j \in solid : i <= j
        hi == CHOOSE i \in solid : \A j \in solid : i >= j
    IN IF solid = {} THEN "" ELSE SubSeq(str, lo, hi)

(* The k-th smallest element of a finite set of integers. *)
Nth(S, k) == CHOOSE x \in S : Cardinality({y \in S : y < x}) = k - 1

(* strings.Fields: the maximal runs of non-blank characters. *)
Fields(str) ==
    LET n == Len(str)
        blank(i) == i < 1 \/ i > n \/ Char(str, i) = " "
        starts == {i \in 1..n : ~blank(i) /\ blank(i - 1)}
        ends == {i \in 1..n : ~blank(i) /\ blank(i + 1)}
    IN [k \in 1..Cardinality(starts) |-> SubSeq(str, Nth(starts, k), Nth(ends, k))]

(* strings.Split(str, sep) for a one-character separator. *)
Split(str, sep) ==
    LET n == Len(str)
        cuts == {i \in 1..n : Char(str, i) = sep}
        from(k) == IF k = 1 THEN 1 ELSE Nth(cuts, k - 1) + 1
        to(k) == IF k = Cardinality(cuts) + 1 THEN n ELSE Nth(cuts, k) - 1
    IN [k \in 1..(Cardinality(cuts) + 1) |-> SubSeq(str, from(k), to(k))]

Digits == CharsOf(DigitChars)

RECURSIVE digitsValue(_, _)
digitsValue(str, n) ==
    IF n = 0 THEN 0 ELSE 10 * digitsValue(str, n - 1) + (Ord(Char(str, n)) - Ord("0"))

(* strconv.Atoi: an optional sign and decimal digits. *)
Atoi(str) ==
    LET signed == Len(str) > 0 /\ Char(str, 1) \in {"+", "-"}
        body == IF signed THEN SubSeq(str, 2, Len(str)) ELSE str
        value == digitsValue(body, Len(body))
    IN IF Len(body) = 0 \/ \E i \in 1..Len(body) : Char(body, i) \notin Digits
       THEN [err |-> "invalid syntax", value |-> 0]
       ELSE [err |-> "", value |-> IF signed /\ Char(str, 1) = "-" THEN -value ELSE value]

(* ------------------------------------------------------------------ *)
(* ParseMove                                                           *)
(* ------------------------------------------------------------------ *)
ToUpper(c) == IF c \in CharsOf(LowerCase)
              THEN Char(UpperCase, IndexIn(LowerCase, c)) ELSE c

ParseError(msg) == [err |-> msg, move |-> ZeroMove]

ParseMove(G, input) ==
    LET notation == TrimSpace(input)
        from == SquareFromString(SubSeq(notation, 1, 2))
        to == SquareFromString(SubSeq(notation, 3, 4))
        piece == GetPiece(G.board, from.square)
        target == GetPiece(G.board, to.square)
        enPassant == /\ IsEmpty(target)
                     /\ piece.Type = Pawn
                     /\ File(from.square) # File(to.square)
                     /\ G.enPassantSquare # NoSquare
                     /\ to.square = G.enPassantSquare
        capSq == IF piece.Color = White THEN to.square - 8 ELSE to.square + 8
        moveType == IF ~IsEmpty(target) THEN Capture
                    ELSE IF enPassant THEN EnPassant ELSE Normal
        captured == IF enPassant THEN GetPiece(G.board, capSq) ELSE target
        move == Mv(from.square, to.square, moveType, piece, captured, Empty)
        promChar == ToUpper(Char(notation, 5))
        promotion == CASE promChar = "Q" -> Queen
                       [] promChar = "R" -> Rook
                       [] promChar = "B" -> Bishop
                       [] promChar = "N" -> Knight
                       [] OTHER -> Empty
    IN IF notation = "O-O" \/ notation = "0-0" THEN parseCastlingMove(G, TRUE)
       ELSE IF notation = "O-O-O" \/ notation = "0-0-0" THEN parseCastlingMove(G, FALSE)
       ELSE IF Len(notation) < 4 THEN ParseError("invalid move notation")
       ELSE IF from.err # "" THEN ParseError("invalid from square")
       ELSE IF to.err # "" THEN ParseError("invalid to square")
       ELSE IF IsEmpty(piece) \/ piece.Color # G.activeColor
       THEN ParseError("no piece to move or wrong color")
       ELSE IF Len(notation) = 5 /\ piece.Type = Pawn
       THEN (IF promotion = Empty THEN ParseError("invalid promotion piece")
             ELSE [err |-> "",
                   move |-> [move EXCEPT !.Promotion = promotion, !.Type = Promotion]])
       ELSE [err |-> "", move |-> move]

(* ------------------------------------------------------------------ *)
(* ParseFEN                                                            *)
(* ------------------------------------------------------------------ *)
SkipChars == {"1", "2", "3", "4", "5", "6", "7", "8"}

FENPieceType(ch) ==
    CASE ch \in {"p", "P"} -> Pawn
      [] ch \in {"r", "R"} -> Rook
      [] ch \in {"n", "N"} -> Knight
      [] ch \in {"b", "B"} -> Bishop
      [] ch \in {"q", "Q"} -> Queen
      [] ch \in {"k", "K"} -> King
      [] OTHER -> Empty

(* The inner loop of the piece placement: the characters of one rank   *)
(* from position i on, with file squares already filled.              *)
RECURSIVE parseRank(_, _, _, _, _)
parseRank(b, rankStr, rankIdx, i, file) ==
    LET ch == Char(rankStr, i)
        color == IF ch \in CharsOf(UpperCase) THEN White ELSE Black
        square == (7 - rankIdx) * 8 + file
    IN IF i > Len(rankStr)
       THEN [err |-> IF file # 8 THEN "expected 8 files" ELSE "", board |-> b]
       ELSE IF file > 7 THEN [err |-> "too many squares", board |-> b]
       ELSE IF ch \in SkipChars
       THEN parseRank(b, rankStr, rankIdx, i + 1, file + (Ord(ch) - Ord("0")))
       ELSE IF FENPieceType(ch) = Empty
       THEN [err |-> "invalid FEN piece character", board |-> b]
       ELSE parseRank(SetPiece(b, square, Pc(FENPieceType(ch), color)),
                      rankStr, rankIdx, i + 1, file + 1)

(* The outer loop: ranks[k] is FEN rank 8-(k-1). *)
RECURSIVE parseRanks(_, _, _)
parseRanks(b, ranks, k) ==
    LET next(r) == IF r.err # "" THEN r ELSE parseRanks(r.board, ranks, k + 1)
    IN IF k > Len(ranks) THEN [err |-> "", board |-> b]
       ELSE next(parseRank(b, ranks[k], k - 1, 1, 0))

RECURSIVE parseCastling(_, _, _)
parseCastling(rights, castling, i) ==
    LET ch == Char(castling, i)
    IN IF i > Len(castling) THEN [err |-> "", rights |-> rights]
       ELSE CASE ch = "K" -> parseCastling([rights EXCEPT !.WhiteKingside = TRUE], castling, i + 1)
              [] ch = "Q" -> parseCastling([rights EXCEPT !.WhiteQueenside = TRUE], castling, i + 1)
              [] ch = "k" -> parseCastling([rights EXCEPT !.BlackKingside = TRUE], castling, i + 1)
              [] ch = "q" -> parseCastling([rights EXCEPT !.BlackQueenside = TRUE], castling, i + 1)
              [] OTHER -> [err |-> "invalid castling char", rights |-> rights]

(* The board after the clearing loop. *)
ClearedBoard == [sq \in Squares |-> EmptyPiece]

(* The fields of a FEN record are read in order, each into the game;   *)
(* the first field that is refused ends the call and leaves what the   *)
(* earlier fields, and the refused field itself, have already written. *)
(* Each step takes the result of the one before it.                    *)
FENFail(g) == [err |-> TRUE, game |-> g]
FENOk(g) == [err |-> FALSE, game |-> g]

(* 1. Piece placement, after the clearing loop. *)
fenPlacement(g, ranks) ==
    LET store(placed) ==
            [err |-> placed.err # "", game |-> [g EXCEPT !.board = placed.board]]
    IN IF Len(ranks) # 8 THEN FENFail(g)
       ELSE store(parseRanks(ClearedBoard, ranks, 1))

(* 2. Active color. *)
fenActiveColor(prev, field) ==
    IF prev.err THEN prev
    ELSE IF Len(field) # 1 \/ (field # "w" /\ field # "b") THEN FENFail(prev.game)
    ELSE FENOk([prev.game EXCEPT
                  !.activeColor = IF field = "w" THEN White ELSE Black])

(* 3. Castling rights. *)
fenCastling(prev, field) ==
    LET store(castling) ==
            [err |-> castling.err # "",
             game |-> [prev.game EXCEPT !.castlingRights = castling.rights]]
    IN IF prev.err THEN prev
       ELSE store(IF field = "-" THEN [err |-> "", rights |-> NoRights]
                  ELSE parseCastling(NoRights, field, 1))

(* 4. En passant square. *)
fenEnPassant(prev, field) ==
    LET store(sq) ==
            IF sq.err # "" THEN FENFail(prev.game)
            ELSE FENOk([prev.game EXCEPT !.enPassantSquare = sq.square])
    IN IF prev.err THEN prev
       ELSE IF field = "-" THEN FENOk([prev.game EXCEPT !.enPassantSquare = NoSquare])
       ELSE IF Len(field) # 2 THEN FENFail(prev.game)
       ELSE store(SquareFromString(field))

(* 5. Halfmove clock (optional), after both counters are reset. *)
fenHalfMove(prev, parts) ==
    LET zeroed == [prev.game EXCEPT !.halfMoveClock = 0, !.moveCount = 1]
        store(hm) ==
            IF hm.err # "" \/ hm.value < 0 THEN FENFail(zeroed)
            ELSE FENOk([zeroed EXCEPT !.halfMoveClock = hm.value])
    IN IF prev.err THEN prev
       ELSE IF Len(parts) >= 5 THEN store(Atoi(parts[5]))
       ELSE FENOk(zeroed)

(* 6. Fullmove number (optional). *)
fenFullMove(prev, parts) ==
    LET store(fm) ==
            IF fm.err # "" \/ fm.value < 1 THEN FENFail(prev.game)
            ELSE FENOk([prev.game EXCEPT !.moveCount = fm.value])
    IN IF prev.err THEN prev
       ELSE IF Len(parts) >= 6 THEN store(Atoi(parts[6]))
       ELSE prev

FENError(G) == [outcome |-> "error", game |-> G]

(* ParseFEN once the record is cut into its fields. *)
(* ParseFEN leaving the move history as it was. *)
parseFENFields_KeepsHistory(G, fen, parts) ==
    LET finish(r) ==
            IF r.err THEN FENError(r.game)
            ELSE updateGameStatus(
                   [r.game EXCEPT !.status = InProgress,
                                  !.startedFromFEN = TRUE, !.startingFEN = fen])
    IN IF Len(parts) < 4 THEN FENError(G)
       ELSE finish(
              fenFullMove(
                fenHalfMove(
                  fenEnPassant(
                    fenCastling(
                      fenActiveColor(
                        fenPlacement(G, Split(parts[1], "/")),
                        parts[2]),
                      parts[3]),
                    parts[4]),
                  parts),
                parts))

parseFENFields(G, fen, parts) ==
    LET finish(r) ==
            IF r.err THEN FENError(r.game)
            ELSE updateGameStatus(
                   [r.game EXCEPT !.moveHistory = <<>>, !.status = InProgress,
                                  !.startedFromFEN = TRUE, !.startingFEN = fen])
    IN IF Len(parts) < 4 THEN FENError(G)
       ELSE finish(
              fenFullMove(
                fenHalfMove(
                  fenEnPassant(
                    fenCastling(
                      fenActiveColor(
                        fenPlacement(G, Split(parts[1], "/")),
                        parts[2]),
                      parts[3]),
                    parts[4]),
                  parts),
                parts))

ParseFEN(G, fen) == parseFENFields(G, fen, Fields(TrimSpace(fen)))

StartedFromFEN(G) == G.startedFromFEN

StartingFEN(G) == G.startingFEN

MoveHistory(G) == G.moveHistory

(* ------------------------------------------------------------------ *)
(* ToFEN                                                               *)
(* ------------------------------------------------------------------ *)
RECURSIVE decimal(_)
(* The decimal digits of a natural number. *)
decimal(n) ==
    IF n < 10 THEN Char(DigitChars, n + 1)
    ELSE decimal(n \div 10) \o Char(DigitChars, (n % 10) + 1)

(* fmt.Sprintf("%d", n) *)
Itoa(n) == IF n < 0 THEN "-" \o decimal(-n) ELSE decimal(n)

pieceToFENChar(piece) ==
    LET char == CASE piece.Type = Pawn -> "p"
                  [] piece.Type = Rook -> "r"
                  [] piece.Type = Knight -> "n"
                  [] piece.Type = Bishop -> "b"
                  [] piece.Type = Queen -> "q"
                  [] piece.Type = King -> "k"
                  [] OTHER -> ""
    IN IF char = "" THEN ""
       ELSE IF piece.Color = White THEN ToUpper(char)
       ELSE char

(* The count of empty squares written before a piece or at the end of  *)
(* a rank.                                                             *)
emptyRun(emptyCount) == IF emptyCount > 0 THEN Itoa(emptyCount) ELSE ""

RECURSIVE fenRank(_, _, _, _)
(* The inner loop of the piece placement: the files of a rank from     *)
(* file on, with emptyCount empty squares not yet written.             *)
fenRank(b, rank, file, emptyCount) ==
    LET piece == GetPiece(b, rank * 8 + file)
    IN IF file = 8 THEN emptyRun(emptyCount)
       ELSE IF IsEmpty(piece) THEN fenRank(b, rank, file + 1, emptyCount + 1)
       ELSE emptyRun(emptyCount) \o pieceToFENChar(piece) \o fenRank(b, rank, file + 1, 0)

RECURSIVE fenRanks(_, _)
(* The outer loop: the ranks from rank down to the first. *)
fenRanks(b, rank) ==
    fenRank(b, rank, 0, 0) \o (IF rank > 0 THEN "/" \o fenRanks(b, rank - 1) ELSE "")

castlingLetters(rights) ==
    (IF rights.WhiteKingside THEN "K" ELSE "")
    \o (IF rights.WhiteQueenside THEN "Q" ELSE "")
    \o (IF rights.BlackKingside THEN "k" ELSE "")
    \o (IF rights.BlackQueenside THEN "q" ELSE "")

(* ToFEN writing nothing, instead of "-", when no right is held. *)
ToFEN_NoDash(G) ==
    fenRanks(G.board, 7)
    \o " " \o (IF G.activeColor = White THEN "w" ELSE "b")
    \o " " \o castlingLetters(G.castlingRights)
    \o " " \o (IF G.enPassantSquare = -1 THEN "-" ELSE SquareString(G.enPassantSquare))
    \o " " \o Itoa(G.halfMoveClock)
    \o " " \o Itoa(G.moveCount)

ToFEN(G) ==
    fenRanks(G.board, 7)
    \o " " \o (IF G.activeColor = White THEN "w" ELSE "b")
    \o " " \o (IF castlingLetters(G.castlingRights) = "" THEN "-"
               ELSE castlingLetters(G.castlingRights))
    \o " " \o (IF G.enPassantSquare = -1 THEN "-" ELSE SquareString(G.enPassantSquare))
    \o " " \o Itoa(G.halfMoveClock)
    \o " " \o Itoa(G.moveCount)

(* ------------------------------------------------------------------ *)
(* GenerateSAN                                                         *)
(* ------------------------------------------------------------------ *)
(* The squares of the other pieces of the mover's type and colour that *)
(* the loop of disambiguation visits.                                  *)
sameTypeSquares(G, piece, move) ==
    {sq \in Squares :
       /\ sq # move.From
       /\ ~IsEmpty(GetPiece(G.board, sq))
       /\ GetPiece(G.board, sq).Color = piece.Color
       /\ GetPiece(G.board, sq).Type = piece.Type}

(* The results of IsLegalMove for the candidates of the piece on sq    *)
(* that end on the destination of the move.                            *)
candidateVerdicts(G, sq, move) ==
    LET reaching(gen) ==
            {IsLegalMove(G, gen.moves[i]) :
               i \in {j \in 1..Len(gen.moves) : gen.moves[j].To = move.To}}
    IN reaching(generatePseudoLegalMoves(G, sq, GetPiece(G.board, sq), {}))

(* disambiguation asking for the file whenever another piece reaches   *)
(* the destination, also when that piece stands on the mover's file.   *)
disambiguation_AlwaysFile(G, piece, move) ==
    LET decide(verdicts) ==
            LET stuck == UNION {verdicts[sq] \ {T, F} : sq \in DOMAIN verdicts}
                rivals == {sq \in DOMAIN verdicts : T \in verdicts[sq]}
            IN IF stuck # {}
               THEN [outcome |-> CHOOSE v \in stuck : TRUE,
                     needFile |-> FALSE, needRank |-> FALSE]
               ELSE [outcome |-> "ok",
                     needFile |-> rivals # {},
                     needRank |-> FALSE]
    IN IF piece.Type = Pawn \/ piece.Type = King
       THEN [outcome |-> "ok", needFile |-> FALSE, needRank |-> FALSE]
       ELSE decide([sq \in sameTypeSquares(G, piece, move) |->
                      candidateVerdicts(G, sq, move)])

(* disambiguation: needFile and needRank, or the nested call that does *)
(* not return.                                                         *)
disambiguation(G, piece, move) ==
    LET decide(verdicts) ==
            LET stuck == UNION {verdicts[sq] \ {T, F} : sq \in DOMAIN verdicts}
                rivals == {sq \in DOMAIN verdicts : T \in verdicts[sq]}
            IN IF stuck # {}
               THEN [outcome |-> CHOOSE v \in stuck : TRUE,
                     needFile |-> FALSE, needRank |-> FALSE]
               ELSE [outcome |-> "ok",
                     needFile |-> \E sq \in rivals : File(sq) # File(move.From),
                     needRank |-> \E sq \in rivals : File(sq) = File(move.From)]
    IN IF piece.Type = Pawn \/ piece.Type = King
       THEN [outcome |-> "ok", needFile |-> FALSE, needRank |-> FALSE]
       ELSE decide([sq \in sameTypeSquares(G, piece, move) |->
                      candidateVerdicts(G, sq, move)])

(* The SAN letter of a promotion piece or of a moving piece. *)
sanLetter(type) ==
    CASE type = Queen -> "Q"
      [] type = Rook -> "R"
      [] type = Bishop -> "B"
      [] type = Knight -> "N"
      [] OTHER -> "?"

sanPromotion(m) ==
    IF m.Type = Promotion /\ m.Promotion # Empty
    THEN "=" \o sanLetter(m.Promotion)
    ELSE ""

(* sanForMove not counting an en-passant capture as a capture. *)
sanBody_EnPassantUnmarked(G, m, piece, dis) ==
    LET target == GetPiece(G.board, m.To)
        isCapture == \/ ~IsEmpty(target) /\ target.Color # piece.Color
                     \/ m.Type = Capture
    IN IF piece.Type = Pawn
       THEN (IF isCapture THEN FileChars[File(m.From) + 1] \o "x" ELSE "")
            \o SquareString(m.To) \o sanPromotion(m)
       ELSE (IF piece.Type = King THEN "K" ELSE sanLetter(piece.Type))
            \o (IF dis.needFile THEN FileChars[File(m.From) + 1] ELSE "")
            \o (IF dis.needRank THEN RankChars[Rank(m.From) + 1] ELSE "")
            \o (IF isCapture THEN "x" ELSE "")
            \o SquareString(m.To) \o sanPromotion(m)

(* The part of sanForMove before the check mark, for a move that is    *)
(* not castling.                                                      *)
sanBody(G, m, piece, dis) ==
    LET target == GetPiece(G.board, m.To)
        isCapture == \/ ~IsEmpty(target) /\ target.Color # piece.Color
                     \/ m.Type = Capture
                     \/ m.Type = EnPassant
    IN IF piece.Type = Pawn
       THEN (IF isCapture THEN FileChars[File(m.From) + 1] \o "x" ELSE "")
            \o SquareString(m.To) \o sanPromotion(m)
       ELSE (IF piece.Type = King THEN "K" ELSE sanLetter(piece.Type))
            \o (IF dis.needFile THEN FileChars[File(m.From) + 1] ELSE "")
            \o (IF dis.needRank THEN RankChars[Rank(m.From) + 1] ELSE "")
            \o (IF isCapture THEN "x" ELSE "")
            \o SquareString(m.To) \o sanPromotion(m)

(* The end of sanForMove: the move is played on a copy with MakeMove,  *)
(* whose error is ignored, and the mark is read from the copy.         *)
sanMark(made) ==
    LET mark(inCheck) ==
            IF inCheck = Overflow THEN [outcome |-> Overflow, mark |-> ""]
            ELSE [outcome |-> "ok", mark |-> IF inCheck = T THEN "+" ELSE ""]
    IN IF made.outcome \notin {"ok", "error"}
       THEN [outcome |-> made.outcome, mark |-> ""]
       ELSE IF made.game.status = WhiteWins \/ made.game.status = BlackWins
       THEN [outcome |-> "ok", mark |-> "#"]
       ELSE mark(isInCheck(made.game, made.game.activeColor, {}))

(* sanForMove: the SAN of a move in the position before it is played. *)
sanForMove(G, m) ==
    LET piece == GetPiece(G.board, m.From)
        finish(dis, marked) ==
            IF dis.outcome # "ok" THEN [outcome |-> dis.outcome, san |-> ""]
            ELSE IF marked.outcome # "ok" THEN [outcome |-> marked.outcome, san |-> ""]
            ELSE [outcome |-> "ok", san |-> sanBody(G, m, piece, dis) \o marked.mark]
    IN IF piece.Type = King /\ m.Type = Castling
       THEN [outcome |-> "ok",
             san |-> IF File(m.To) > File(m.From) THEN "O-O" ELSE "O-O-O"]
       ELSE finish(CHOOSE dis \in {disambiguation(G, piece, m)} : TRUE,
                   CHOOSE marked \in {sanMark(CHOOSE made \in {MakeMove(copy(G), m)} : TRUE)} :
                      TRUE)

RECURSIVE sanReplay(_, _, _)
(* The loop of GenerateSAN from the k-th move of the history on. *)
sanReplay(replay, history, k) ==
    LET append(san, rest) ==
            IF rest.outcome # "ok" THEN rest
            ELSE [outcome |-> "ok", san |-> <<san.san>> \o rest.san]
        step(san, made) ==
            IF san.outcome # "ok" THEN [outcome |-> san.outcome, san |-> <<>>]
            ELSE IF made.outcome \notin {"ok", "error"}
            THEN [outcome |-> made.outcome, san |-> <<>>]
            ELSE append(san, sanReplay(made.game, history, k + 1))
    IN IF k > Len(history) THEN [outcome |-> "ok", san |-> <<>>]
       ELSE step(CHOOSE san \in {sanForMove(replay, history[k])} : TRUE,
                 CHOOSE made \in {MakeMove(replay, history[k])} : TRUE)

(* GenerateSAN: the SAN strings of the move history, replayed from the *)
(* starting position or from the FEN the game was loaded from.         *)
GenerateSAN(G) ==
    LET from(loaded) ==
            IF loaded.outcome \notin {"ok", "error"}
            THEN [outcome |-> loaded.outcome, san |-> <<>>]
            ELSE sanReplay(loaded.game, G.moveHistory, 1)
    IN from(IF G.startedFromFEN /\ G.startingFEN # ""
            THEN CHOOSE loaded \in {ParseFEN(NewGame, G.startingFEN)} : TRUE
            ELSE [outcome |-> "ok", game |-> NewGame])

(* ------------------------------------------------------------------ *)
(* Inputs                                                              *)
(* ------------------------------------------------------------------ *)
(* Bounds of the exploration: the number of moves played on a position *)
(* loaded from FEN, the number played from the starting position, and   *)
(* the number of moves after which a FEN may still be loaded; for the   *)
(* server, the number of games created and of requests in flight.       *)
MaxPlies == 2
MaxOpeningPlies == 1
MaxLoadPly == 1
MaxGames == 1
MaxRequests == 2
(* The longest thinking delay of RandomAI: the largest rng.Intn(1000).  *)
MaxThinkTime == 999

FENCastle == "4k3/8/8/8/8/8/8/4K2R w K - 0 1"
FENCastleDenied == "4k3/8/8/8/8/8/6p1/RN2K2R w KQ - 0 1"
FENCastleInCheck == "4k3/8/8/8/8/8/3p4/R3K2R w KQ - 0 1"
FENCastleBlack == "r3k2r/7P/8/8/8/8/8/4K3 b kq - 0 1"
FENBothCastle == "r3k2r/8/8/8/8/8/8/R3K2R w KQkq - 0 1"
FENMate == "7k/8/5QK1/8/8/8/8/8 w - - 0 1"
FENMateBlack == "8/8/8/8/8/5qk1/8/7K b - - 0 1"
FENEnPassant == "4k3/8/8/8/3p4/8/4P3/4K3 w - - 0 1"
FENJump == "4k3/8/8/8/8/5N2/5P2/4K3 w - - 0 1"
FENEnPassantOnly == "8/3p4/4p3/4P3/8/1p6/2k5/K7 b - - 0 1"
FENRookCapture == "r3k3/8/1N6/8/8/8/8/4K3 w q - 4 1"
FENEnPassantTarget == "4k3/8/8/3pP3/8/8/8/4K3 w - d6 0 2"
FENShortRank == "8/8/8/8/8/8/8/7 w - - 0 1"
FENTwoFields == "8/8 w"

(* Positions for the SAN of piece moves: rooks sharing a file and a     *)
(* rank, and a knight whose companion is pinned.                       *)
FENRooks == "8/4k3/8/R7/8/2R5/6K1/R6R w - - 0 1"
FENPinnedKnight == "7k/4r3/8/8/8/1N6/4N3/4K3 w - - 0 1"

(* Black's d7-d5 attacks the white king, which has no square to go to; *)
(* the pawn on e5 can take the d-pawn en passant.                      *)
FENCheckEnPassant == "7k/3p4/4p3/4P3/4K3/r7/4n3/8 b - - 0 1"

(* A pawn that can promote by advancing and by capturing. *)
FENPromotion == "3r3k/4P3/8/8/8/8/8/4K3 w - - 0 1"

FENMated == "7k/6Q1/6K1/8/8/8/8/8 b - - 0 1"
FENStalemate == "7k/5Q2/6K1/8/8/8/8/8 b - - 0 1"
FENCaptures == "4k3/8/8/3q1r2/4P3/8/8/4K3 w - - 0 20"
FENCheckRook == "4k3/8/8/8/8/8/4r3/4K3 w - - 0 1"
AIFENInputs == {FENMate, FENMated, FENStalemate, FENCaptures, FENCheckRook}

SANFENInputs == {FENRooks, FENPinnedKnight, FENMate, FENMateBlack,
                 FENCheckEnPassant, FENEnPassant, FENEnPassantTarget,
                 FENPromotion}

FENInputs == {FENCastle, FENCastleDenied, FENCastleInCheck, FENCastleBlack,
              FENBothCastle, FENMate, FENMateBlack, FENEnPassant, FENJump,
              FENEnPassantOnly, FENEnPassantTarget,
              FENRookCapture, FENShortRank, FENTwoFields}

(* Move notations offered to ParseMove in game G: every coordinate pair *)
(* whose source square holds a piece of the side to move, a promotion   *)
(* letter after every pair whose source holds a pawn, the castling      *)
(* tokens, and notations ParseMove is expected to refuse: a letter that *)
(* names no promotion piece, a character too many, tokens that are too  *)
(* short, square tokens off the board, and source squares that are      *)
(* empty or hold a piece of the side not to move.                       *)
OwnSquares(G) == {sq \in Squares : ~IsEmpty(G.board[sq]) /\ G.board[sq].Color = G.activeColor}

CoordinateNotations(G) ==
    {SquareString(from) \o SquareString(to) : from \in OwnSquares(G), to \in Squares}

PromotionSuffixes == {"Q", "n"}

PromotionNotations(G) ==
    {SquareString(from) \o SquareString(to) \o suffix :
        from \in {sq \in OwnSquares(G) : G.board[sq].Type = Pawn},
        to \in Squares,
        suffix \in PromotionSuffixes}

CastlingNotations == {"O-O", "O-O-O", "0-0", "0-0-0"}

BadSuffixes == {"x", "Qx"}

BadSuffixNotations(G) ==
    {notation \o suffix : notation \in CoordinateNotations(G), suffix \in BadSuffixes}

BadTokenNotations == {"", "e2", "e2e", "e2e9", "e9e2", "z9z9", "E2e4", "e2-e4"}

OtherSourceNotations(G) ==
    {SquareString(from) \o SquareString(to) :
        from \in Squares \ OwnSquares(G), to \in {A1, H8}}

Notations(G) ==
    CoordinateNotations(G) \cup PromotionNotations(G) \cup CastlingNotations
    \cup BadSuffixNotations(G) \cup BadTokenNotations \cup OtherSourceNotations(G)

(* ------------------------------------------------------------------ *)
(* State machine                                                       *)
(* ------------------------------------------------------------------ *)
(* game and ret are the Game and the result of the call in progress.   *)
(* retained holds the states kept for UndoMove, one for each move of   *)
(* the history. start is the game as it was when its history was last  *)
(* empty, and undone the number of successful UndoMove calls since the *)
(* last move or load: the two record what the undo properties refer to.*)
VARIABLES game, ret, retained, start, undone,
          nextID, games, gameMetadata, gameLocks, mutex, requests

vars == <<game, ret, retained, start, undone,
          nextID, games, gameMetadata, gameLocks, mutex, requests>>

(* The server's own state: the next id, the ids in its maps (games,    *)
(* gameMetadata, gameLocks), the holder of the game's mutex (0: free)  *)
(* and the requests being handled.  game is then the Game that the id  *)
(* maps to.                                                            *)
server == <<nextID, games, gameMetadata, gameLocks, mutex, requests>>

(* ------------------------------------------------------------------ *)
(* UndoMove                                                            *)
(* ------------------------------------------------------------------ *)
(* The state retained before a move: board, rights, en-passant target, *)
(* clocks, active colour and status.                                   *)
Snapshot(G) ==
    [board |-> G.board, activeColor |-> G.activeColor,
     castlingRights |-> G.castlingRights, enPassantSquare |-> G.enPassantSquare,
     halfMoveClock |-> G.halfMoveClock, moveCount |-> G.moveCount,
     status |-> G.status]

Restore(G, snapshot) ==
    [G EXCEPT !.board = snapshot.board, !.activeColor = snapshot.activeColor,
              !.castlingRights = snapshot.castlingRights,
              !.enPassantSquare = snapshot.enPassantSquare,
              !.halfMoveClock = snapshot.halfMoveClock,
              !.moveCount = snapshot.moveCount, !.status = snapshot.status,
              !.moveHistory = SubSeq(G.moveHistory, 1, Len(G.moveHistory) - 1)]

(* UndoMove restoring the position but not the two clocks. *)
UndoMove_KeepsClocks(G, snapshots) ==
    IF Len(G.moveHistory) = 0
    THEN [outcome |-> "error", game |-> G, retained |-> snapshots]
    ELSE [outcome |-> "ok",
          game |-> [Restore(G, snapshots[Len(snapshots)]) EXCEPT
                      !.halfMoveClock = G.halfMoveClock,
                      !.moveCount = G.moveCount],
          retained |-> SubSeq(snapshots, 1, Len(snapshots) - 1)]

(* Fails when the history is empty; otherwise removes the last move    *)
(* and restores the state retained before it.                          *)
UndoMove(G, snapshots) ==
    IF Len(G.moveHistory) = 0
    THEN [outcome |-> "error", game |-> G, retained |-> snapshots]
    ELSE [outcome |-> "ok",
          game |-> Restore(G, snapshots[Len(snapshots)]),
          retained |-> SubSeq(snapshots, 1, Len(snapshots) - 1)]

(* A request: the handler serving it, where the handler stands (pc),   *)
(* the id it was sent for, whether it found a mutex for the game       *)
(* (lock), its body (input), the move it parsed, the game as it was    *)
(* when the handler locked it (before) and what it answers (response); *)
(* gamesMux tells how it holds the mutex of the server's maps: not at   *)
(* all (""), for reading ("RLock") or for writing ("Lock").             *)
Requests == 1..MaxRequests

NoResponse == [kind |-> "none"]

NoRequest ==
    [handler |-> "", pc |-> "idle", id |-> 0, lock |-> FALSE, input |-> "",
     move |-> ZeroMove, before |-> NewGame, response |-> NoResponse,
     gamesMux |-> ""]

(* ret: the call in progress or just finished.  op "none": no call.    *)
(* outcome "ok": returned nil; "error": returned an error; "overflow"   *)
(* and "hang": the call did not return.                                 *)
NoCall == [op |-> "none", outcome |-> "ok", kind |-> "", piece |-> ""]

Init ==
    /\ game = NewGame
    /\ ret = NoCall
    /\ retained = <<>>
    /\ start = NewGame
    /\ undone = 0
    /\ nextID = 1
    /\ games = {}
    /\ gameMetadata = [id \in {} |-> ""]
    /\ gameLocks = {}
    /\ mutex = 0
    /\ requests = [r \in Requests |-> NoRequest]

Idle == ret.op = "none"

(* The moves a client hands to MakeMove: the results of ParseMove and   *)
(* the moves returned by GetAllLegalMoves.                               *)
ParsedMoves(G) ==
    {parsed.move :
        parsed \in {p \in {ParseMove(G, notation) : notation \in Notations(G)} :
                      p.err = ""}}

GeneratedMoves(G) ==
    LET offered(legalMoves) ==
            IF legalMoves.overflow THEN {}
            ELSE {legalMoves.moves[i] : i \in 1..Len(legalMoves.moves)}
    IN offered(GetAllLegalMoves(G))

MoveInputs(G) == ParsedMoves(G) \cup GeneratedMoves(G)

PlyBound(G) == IF G.startedFromFEN THEN MaxPlies ELSE MaxOpeningPlies

CallMakeMove ==
    /\ Idle
    /\ UNCHANGED server
    /\ Len(game.moveHistory) < PlyBound(game)
    /\ \E move \in MoveInputs(game) :
          \E r \in {MakeMove(game, move)} :
             /\ game' = r.game
             /\ ret' = [op |-> "MakeMove", outcome |-> r.outcome,
                        kind |-> move.Type, piece |-> move.Piece.Type]
             /\ retained' = IF r.outcome = "ok" THEN Append(retained, Snapshot(game))
                            ELSE retained
             /\ undone' = IF r.outcome = "ok" THEN 0 ELSE undone
             /\ UNCHANGED start

LoadFEN ==
    /\ Idle
    /\ UNCHANGED server
    /\ Len(game.moveHistory) <= MaxLoadPly
    /\ \E fen \in FENInputs :
          \E r \in {ParseFEN(game, fen)} :
             /\ game' = r.game
             /\ ret' = [op |-> "ParseFEN", outcome |-> r.outcome,
                        kind |-> "", piece |-> ""]
             /\ retained' = IF r.outcome = "ok" THEN <<>> ELSE retained
             /\ start' = IF Len(r.game.moveHistory) = 0 THEN r.game ELSE start
             /\ undone' = IF r.outcome = "ok" THEN 0 ELSE undone

(* A client replaces its game by a fresh one. *)
CallNewGame ==
    /\ Idle
    /\ UNCHANGED server
    /\ game' = NewGame
    /\ ret' = [op |-> "NewGame", outcome |-> "ok", kind |-> "", piece |-> ""]
    /\ retained' = <<>>
    /\ start' = NewGame
    /\ undone' = 0

CallUndoMove ==
    /\ Idle
    /\ UNCHANGED server
    /\ \E r \in {UndoMove(game, retained)} :
          /\ game' = r.game
          /\ retained' = r.retained
          /\ ret' = [op |-> "UndoMove", outcome |-> r.outcome,
                     kind |-> "", piece |-> ""]
          /\ undone' = IF r.outcome = "ok" THEN undone + 1 ELSE undone
          /\ UNCHANGED start

(* The call returns to its caller. *)
Return ==
    /\ ~Idle
    /\ ret.outcome \in {"ok", "error"}
    /\ ret' = NoCall
    /\ UNCHANGED <<game, retained, start, undone>>
    /\ UNCHANGED server

Next ==
    \/ CallMakeMove
    \/ LoadFEN
    \/ CallNewGame
    \/ CallUndoMove
    \/ Return

Spec == Init /\ [][Next]_vars

(* ------------------------------------------------------------------ *)
(* Games whose moves are written in SAN                                *)
(* ------------------------------------------------------------------ *)
LoadSANPosition ==
    /\ Idle
    /\ UNCHANGED server
    /\ Len(game.moveHistory) <= MaxLoadPly
    /\ \E fen \in SANFENInputs :
          \E r \in {ParseFEN(game, fen)} :
             /\ game' = r.game
             /\ ret' = [op |-> "ParseFEN", outcome |-> r.outcome,
                        kind |-> "", piece |-> ""]
             /\ retained' = IF r.outcome = "ok" THEN <<>> ELSE retained
             /\ start' = IF Len(r.game.moveHistory) = 0 THEN r.game ELSE start
             /\ undone' = IF r.outcome = "ok" THEN 0 ELSE undone

SANNext ==
    \/ CallMakeMove
    \/ LoadSANPosition
    \/ Return

SANSpec == Init /\ [][SANNext]_vars

(* ------------------------------------------------------------------ *)
(* Move selection: RandomAI, MinimaxAI and LLMAIEngine                  *)
(* ------------------------------------------------------------------ *)
(* A move as the generators of RandomAI build it: Normal onto an empty *)
(* square, Capture with the captured piece onto an enemy piece.        *)
RandomAI_move(from, to, piece, target) ==
    IF IsEmpty(target) THEN Mv(from, to, Normal, piece, EmptyPiece, Empty)
    ELSE Mv(from, to, Capture, piece, target, Empty)

RandomAI_generatePawnMoves(board, from, piece) ==
    LET direction == IF piece.Color = Black THEN -8 ELSE 8
        to == from + direction
        to2 == to + direction
        forward ==
            IF to >= 0 /\ to < 64 /\ IsEmpty(GetPiece(board, to))
            THEN <<Mv(from, to, Normal, piece, EmptyPiece, Empty)>>
                 \o (IF /\ \/ piece.Color = White /\ Rank(from) = 1
                           \/ piece.Color = Black /\ Rank(from) = 6
                        /\ to2 >= 0 /\ to2 < 64 /\ IsEmpty(GetPiece(board, to2))
                     THEN <<Mv(from, to2, Normal, piece, EmptyPiece, Empty)>>
                     ELSE <<>>)
            ELSE <<>>
        capture(fileOffset) ==
            LET sq == from + direction + fileOffset
                target == GetPiece(board, sq)
            IN IF /\ sq >= 0 /\ sq < 64 /\ abs(File(sq) - File(from)) = 1
                  /\ ~IsEmpty(target) /\ target.Color # piece.Color
               THEN <<Mv(from, sq, Capture, piece, target, Empty)>>
               ELSE <<>>
    IN forward \o capture(-1) \o capture(1)

RECURSIVE RandomAI_slide(_, _, _, _, _, _)
(* The inner loop of generateRookMoves and generateBishopMoves along   *)
(* one direction, from step i on.                                      *)
RandomAI_slide(board, from, piece, dir, i, diagonal) ==
    LET to == from + i * dir
        target == GetPiece(board, to)
        wrapped == IF diagonal
                   THEN abs(File(to) - File(from)) # i \/ abs(Rank(to) - Rank(from)) # i
                   ELSE (dir = 1 \/ dir = -1) /\ abs(File(to) - File(from)) # i
    IN IF i >= 8 \/ to < 0 \/ to >= 64 THEN <<>>
       ELSE IF wrapped THEN <<>>
       ELSE IF IsEmpty(target)
       THEN <<RandomAI_move(from, to, piece, target)>>
            \o RandomAI_slide(board, from, piece, dir, i + 1, diagonal)
       ELSE IF target.Color # piece.Color
       THEN <<RandomAI_move(from, to, piece, target)>>
       ELSE <<>>

RandomAI_generateRookMoves(board, from, piece) ==
    RandomAI_slide(board, from, piece, 1, 1, FALSE)
    \o RandomAI_slide(board, from, piece, -1, 1, FALSE)
    \o RandomAI_slide(board, from, piece, 8, 1, FALSE)
    \o RandomAI_slide(board, from, piece, -8, 1, FALSE)

RandomAI_generateBishopMoves(board, from, piece) ==
    RandomAI_slide(board, from, piece, 9, 1, TRUE)
    \o RandomAI_slide(board, from, piece, 7, 1, TRUE)
    \o RandomAI_slide(board, from, piece, -7, 1, TRUE)
    \o RandomAI_slide(board, from, piece, -9, 1, TRUE)

RandomAI_generateQueenMoves(board, from, piece) ==
    RandomAI_generateRookMoves(board, from, piece)
    \o RandomAI_generateBishopMoves(board, from, piece)

RECURSIVE RandomAI_steps(_, _, _, _, _, _)
(* The loop of generateKnightMoves (knight TRUE) and generateKingMoves *)
(* over their offsets, from the k-th on.                               *)
RandomAI_steps(board, from, piece, offsets, k, knight) ==
    IF k > Len(offsets) THEN <<>>
    ELSE LET to == from + offsets[k]
             fileDiff == abs(File(to) - File(from))
             rankDiff == abs(Rank(to) - Rank(from))
             target == GetPiece(board, to)
             reached == IF knight
                        THEN (fileDiff = 2 /\ rankDiff = 1) \/ (fileDiff = 1 /\ rankDiff = 2)
                        ELSE ~(fileDiff > 1 \/ rankDiff > 1)
         IN (IF to >= 0 /\ to < 64 /\ reached
                /\ (IsEmpty(target) \/ target.Color # piece.Color)
             THEN <<RandomAI_move(from, to, piece, target)>>
             ELSE <<>>)
            \o RandomAI_steps(board, from, piece, offsets, k + 1, knight)

RandomAI_generateKnightMoves(board, from, piece) ==
    RandomAI_steps(board, from, piece, <<17, 15, 10, 6, -6, -10, -15, -17>>, 1, TRUE)

RandomAI_generateKingMoves(board, from, piece) ==
    RandomAI_steps(board, from, piece, <<1, -1, 8, -8, 9, 7, -7, -9>>, 1, FALSE)

generatePieceMovesI(G, from, piece) ==
    CASE piece.Type = Pawn -> RandomAI_generatePawnMoves(G.board, from, piece)
      [] piece.Type = Rook -> RandomAI_generateRookMoves(G.board, from, piece)
      [] piece.Type = Knight -> RandomAI_generateKnightMoves(G.board, from, piece)
      [] piece.Type = Bishop -> RandomAI_generateBishopMoves(G.board, from, piece)
      [] piece.Type = Queen -> RandomAI_generateQueenMoves(G.board, from, piece)
      [] piece.Type = King -> RandomAI_generateKingMoves(G.board, from, piece)
      [] OTHER -> <<>>

(* The validation accepting every generated move. *)
validMoves_Unvalidated(G, pieceMoves) ==
    [outcome |-> "ok", moves |-> pieceMoves]

(* "Apply legal move validation": the moves of pieceMoves that         *)
(* IsLegalMove accepts, in their order; outcome tells whether every    *)
(* call of IsLegalMove returned.                                       *)
validMoves(G, pieceMoves) ==
    LET keep(legal) ==
            LET stuck == {i \in 1..Len(legal) : legal[i] \notin {T, F}}
                idx == SelectSeq([i \in 1..Len(legal) |-> i], LAMBDA i : legal[i] = T)
            IN IF stuck # {}
               THEN [outcome |-> legal[CHOOSE i \in stuck : \A j \in stuck : i <= j],
                     moves |-> <<>>]
               ELSE [outcome |-> "ok",
                     moves |-> [k \in 1..Len(idx) |-> pieceMoves[idx[k]]]]
    IN keep([i \in 1..Len(pieceMoves) |-> IsLegalMove(G, pieceMoves[i])])

(* RandomAI.GenerateLegalMoves: the loop over the squares 0..63, for   *)
(* the pieces of the side to move.                                     *)
GenerateLegalMoves(G) ==
    LET own == {sq \in Squares :
                  ~IsEmpty(G.board[sq]) /\ G.board[sq].Color = G.activeColor}
        collect(kept) ==
            LET stuck == {sq \in own : kept[sq].outcome # "ok"}
            IN IF stuck # {}
               THEN [outcome |-> kept[CHOOSE sq \in stuck : \A o \in stuck : sq <= o].outcome,
                     moves |-> <<>>]
               ELSE [outcome |-> "ok", moves |-> concatFrom(kept, 0)]
    IN collect([sq \in own |-> validMoves(G, generatePieceMovesI(G, sq, G.board[sq]))])

(* GenerateAllLegalMoves: the wrapper used by MinimaxAI. *)
GenerateAllLegalMoves(G) == GenerateLegalMoves(G)

(* A context: whether it is ever cancelled or past its deadline, when  *)
(* (in milliseconds after GetBestMove starts its delay; negative: it   *)
(* was done before the call) and the error that ctx.Err() then gives.  *)
Background == [cancelled |-> FALSE, at |-> 0, err |-> ""]

Canceled == "context canceled"
DeadlineExceeded == "context deadline exceeded"

(* select { case <-time.After(thinkTime): case <-ctx.Done(): }, reached *)
(* as soon as the timer is started: the case that is ready first; when  *)
(* both are ready together, the one the runtime picks (coin).           *)
thinking(thinkTime, ctx, coin) ==
    LET doneAt == IF ctx.at < 0 THEN 0 ELSE ctx.at
    IN IF ~ctx.cancelled THEN "timer"
       ELSE IF doneAt < thinkTime THEN "ctx"
       ELSE IF doneAt > thinkTime THEN "timer"
       ELSE coin

NoLegalMoves == "no legal moves available"

Failed(err) == [outcome |-> "error", err |-> err, move |-> ZeroMove]

Stuck(outcome) == [outcome |-> outcome, err |-> "", move |-> ZeroMove]

(* RandomAI.GetBestMove checking the context before the moves. *)
RandomAI_GetBestMove_ContextFirst(ctx, generated, rng) ==
    IF generated.outcome # "ok" THEN Stuck(generated.outcome)
    ELSE IF thinking(rng.thinkTime, ctx, rng.coin) = "ctx" THEN Failed(ctx.err)
    ELSE IF Len(generated.moves) = 0 THEN Failed(NoLegalMoves)
    ELSE [outcome |-> "ok", err |-> "",
          move |-> generated.moves[(rng.intn % Len(generated.moves)) + 1]]

(* RandomAI.GetBestMove once ai.GenerateLegalMoves(game) has returned  *)
(* generated.  rng holds what the generator then draws (thinkTime,     *)
(* intn) and the choice of the select between two ready cases (coin).  *)
RandomAI_GetBestMove(ctx, generated, rng) ==
    IF generated.outcome # "ok" THEN Stuck(generated.outcome)
    ELSE IF Len(generated.moves) = 0 THEN Failed(NoLegalMoves)
    ELSE IF thinking(rng.thinkTime, ctx, rng.coin) = "ctx" THEN Failed(ctx.err)
    ELSE [outcome |-> "ok", err |-> "",
          move |-> generated.moves[(rng.intn % Len(generated.moves)) + 1]]

(* NewMinimaxAI / SetDifficulty: the depth of a difficulty. *)
Difficulties == {"beginner", "easy", "medium", "hard", "expert"}

depthOf(difficulty) ==
    CASE difficulty = "medium" -> 3
      [] difficulty = "hard" -> 4
      [] difficulty = "expert" -> 5
      [] OTHER -> 2

MinimaxAI_canPawnAttack(fromSq, toSq, color) ==
    LET direction == IF color = Black THEN -1 ELSE 1
    IN /\ Rank(toSq) = Rank(fromSq) + direction
       /\ (File(toSq) = File(fromSq) + 1 \/ File(toSq) = File(fromSq) - 1)

RECURSIVE MinimaxAI_walk(_, _, _, _, _, _)
(* The loop of MinimaxAI.isPathClear from (currentRank, currentFile). *)
MinimaxAI_walk(G, currentRank, currentFile, toSq, deltaRank, deltaFile) ==
    IF ~(currentRank # Rank(toSq) \/ currentFile # File(toSq)) THEN TRUE
    ELSE IF ~IsEmpty(GetPiece(G.board, currentRank * 8 + currentFile)) THEN FALSE
    ELSE MinimaxAI_walk(G, currentRank + deltaRank, currentFile + deltaFile,
                        toSq, deltaRank, deltaFile)

MinimaxAI_isPathClear(G, fromSq, toSq) ==
    LET deltaRank == IF Rank(toSq) > Rank(fromSq) THEN 1
                     ELSE IF Rank(toSq) < Rank(fromSq) THEN -1 ELSE 0
        deltaFile == IF File(toSq) > File(fromSq) THEN 1
                     ELSE IF File(toSq) < File(fromSq) THEN -1 ELSE 0
    IN MinimaxAI_walk(G, Rank(fromSq) + deltaRank, File(fromSq) + deltaFile,
                      toSq, deltaRank, deltaFile)

MinimaxAI_canRookAttack(G, fromSq, toSq) ==
    IF Rank(fromSq) # Rank(toSq) /\ File(fromSq) # File(toSq) THEN FALSE
    ELSE MinimaxAI_isPathClear(G, fromSq, toSq)

MinimaxAI_canBishopAttack(G, fromSq, toSq) ==
    IF abs(Rank(fromSq) - Rank(toSq)) # abs(File(fromSq) - File(toSq)) THEN FALSE
    ELSE MinimaxAI_isPathClear(G, fromSq, toSq)

MinimaxAI_canKnightAttack(fromSq, toSq) ==
    LET deltaRank == abs(Rank(fromSq) - Rank(toSq))
        deltaFile == abs(File(fromSq) - File(toSq))
    IN (deltaRank = 2 /\ deltaFile = 1) \/ (deltaRank = 1 /\ deltaFile = 2)

MinimaxAI_canKingAttack(fromSq, toSq) ==
    LET deltaRank == abs(Rank(fromSq) - Rank(toSq))
        deltaFile == abs(File(fromSq) - File(toSq))
    IN deltaRank <= 1 /\ deltaFile <= 1 /\ (deltaRank # 0 \/ deltaFile # 0)

canPieceAttackSquare(G, fromSq, toSq) ==
    LET piece == GetPiece(G.board, fromSq)
    IN CASE piece.Type = Pawn -> MinimaxAI_canPawnAttack(fromSq, toSq, piece.Color)
         [] piece.Type = Rook -> MinimaxAI_canRookAttack(G, fromSq, toSq)
         [] piece.Type = Bishop -> MinimaxAI_canBishopAttack(G, fromSq, toSq)
         [] piece.Type = Queen -> \/ MinimaxAI_canRookAttack(G, fromSq, toSq)
                                  \/ MinimaxAI_canBishopAttack(G, fromSq, toSq)
         [] piece.Type = Knight -> MinimaxAI_canKnightAttack(fromSq, toSq)
         [] piece.Type = King -> MinimaxAI_canKingAttack(fromSq, toSq)
         [] OTHER -> FALSE

isGameInCheck(G, color) ==
    LET kings == {sq \in 0..63 : GetPiece(G.board, sq) = Pc(King, color)}
        kingSquare == CHOOSE sq \in kings : \A other \in kings : sq <= other
        opponentColor == IF color = White THEN Black ELSE White
    IN IF kings = {} THEN FALSE
       ELSE \E sq \in 0..63 :
               /\ GetPiece(G.board, sq).Color = opponentColor
               /\ ~IsEmpty(GetPiece(G.board, sq))
               /\ canPieceAttackSquare(G, sq, kingSquare)

(* findCheckEscapeMoves: the moves that IsLegalMove accepts. *)
findCheckEscapeMoves(G, moves, color) == validMoves(G, moves)

(* evaluateMove without the bonus of the four centre squares. *)
evaluateMove_NoCentre(G, move) ==
    LET targetPiece == GetPiece(G.board, move.To)
        piece == GetPiece(G.board, move.From)
    IN (CASE targetPiece.Type = Queen -> 900
          [] targetPiece.Type = Rook -> 500
          [] targetPiece.Type \in {Bishop, Knight} -> 300
          [] targetPiece.Type = Pawn -> 100
          [] OTHER -> 0)
       + (IF G.moveCount < 10 /\ piece.Type \in {Knight, Bishop} THEN 30 ELSE 0)

evaluateMove(G, move) ==
    LET targetPiece == GetPiece(G.board, move.To)
        piece == GetPiece(G.board, move.From)
    IN (CASE targetPiece.Type = Queen -> 900
          [] targetPiece.Type = Rook -> 500
          [] targetPiece.Type \in {Bishop, Knight} -> 300
          [] targetPiece.Type = Pawn -> 100
          [] OTHER -> 0)
       + (IF move.To \in {27, 28, 35, 36} THEN 50 ELSE 0)
       + (IF G.moveCount < 10 /\ piece.Type \in {Knight, Bishop} THEN 30 ELSE 0)

RECURSIVE bestFrom(_, _, _, _, _)
(* The loop over moves[1:]: the best move seen so far is replaced only *)
(* by a move of a strictly greater score.                              *)
bestFrom(G, moves, k, bestMove, bestScore) ==
    IF k > Len(moves) THEN bestMove
    ELSE IF evaluateMove(G, moves[k]) > bestScore
    THEN bestFrom(G, moves, k + 1, moves[k], evaluateMove(G, moves[k]))
    ELSE bestFrom(G, moves, k + 1, bestMove, bestScore)

(* MinimaxAI.GetBestMove once ai.GenerateLegalMoves(game) has returned *)
(* generated.                                                          *)
MinimaxAI_GetBestMove(ctx, G, generated, difficulty, coin) ==
    LET choose(moves) ==
            IF thinking(depthOf(difficulty) * 100, ctx, coin) = "ctx"
            THEN Failed(ctx.err)
            ELSE [outcome |-> "ok", err |-> "",
                  move |-> bestFrom(G, moves, 2, moves[1], evaluateMove(G, moves[1]))]
        escape(checkEscapeMoves) ==
            IF checkEscapeMoves.outcome # "ok" THEN Stuck(checkEscapeMoves.outcome)
            ELSE IF Len(checkEscapeMoves.moves) > 0 THEN choose(checkEscapeMoves.moves)
            ELSE choose(generated.moves)
    IN IF generated.outcome # "ok" THEN Stuck(generated.outcome)
       ELSE IF Len(generated.moves) = 0 THEN Failed(NoLegalMoves)
       ELSE IF isGameInCheck(G, G.activeColor)
       THEN escape(findCheckEscapeMoves(G, generated.moves, G.activeColor))
       ELSE choose(generated.moves)

RECURSIVE ToLower(_)
(* strings.ToLower *)
ToLower(str) ==
    IF str = "" THEN ""
    ELSE (IF Char(str, 1) \in CharsOf(UpperCase)
          THEN Char(LowerCase, IndexIn(UpperCase, Char(str, 1)))
          ELSE Char(str, 1))
         \o ToLower(SubSeq(str, 2, Len(str)))

(* strings.Trim(str, cutset) *)
Trim(str, cutset) ==
    LET kept == {i \in 1..Len(str) : Char(str, i) \notin CharsOf(cutset)}
        lo == CHOOSE i \in kept : \A j \in kept : i <= j
        hi == CHOOSE i \in kept : \A j \in kept : i >= j
    IN IF kept = {} THEN "" ELSE SubSeq(str, lo, hi)

TrimPrefix(str, prefix) ==
    IF Len(str) >= Len(prefix) /\ SubSeq(str, 1, Len(prefix)) = prefix
    THEN SubSeq(str, Len(prefix) + 1, Len(str))
    ELSE str

TrimSuffix(str, suffix) ==
    IF Len(str) >= Len(suffix)
       /\ SubSeq(str, Len(str) - Len(suffix) + 1, Len(str)) = suffix
    THEN SubSeq(str, 1, Len(str) - Len(suffix))
    ELSE str

(* A line of the response without the usual words around the move. *)
cleanLine(line) ==
    TrimSuffix(
      TrimSuffix(
        TrimSuffix(
          TrimPrefix(TrimPrefix(TrimSpace(line), "Move: "), "Best move: "),
          "."),
        "!"),
      "?")

RECURSIVE parseLines(_, _, _)
(* The loop of parseMoveFromResponse over the lines from the k-th on:  *)
(* the first line that ParseMove reads and IsLegalMove accepts.        *)
parseLines(G, lines, k) ==
    IF k > Len(lines) THEN Failed("could not parse move from response")
    ELSE LET try(parsed) ==
                 LET legal == IF parsed.err # "" THEN F
                              ELSE IsLegalMove(G, parsed.move)
                 IN IF legal = T
                    THEN [outcome |-> "ok", err |-> "", move |-> parsed.move]
                    ELSE IF legal = F THEN parseLines(G, lines, k + 1)
                    ELSE Stuck(legal)
         IN IF TrimSpace(lines[k]) = "" THEN parseLines(G, lines, k + 1)
            ELSE try(ParseMove(G, cleanLine(lines[k])))

(* parseMoveFromResponse; generated and rng are those of the RandomAI  *)
(* it hands the game to when the response is the word random.          *)
parseMoveFromResponse(response, G, generated, rng) ==
    LET cleaned == Trim(TrimSpace(response), "\"'")
    IN IF ToLower(cleaned) = "random"
       THEN RandomAI_GetBestMove(Background, generated, rng)
       ELSE parseLines(G, Split(cleaned, "\n"), 1)

(* LLMAIEngine.GetBestMove; llm is what askLLM returns.  via tells who  *)
(* chose the move: the response, the RandomAI asked for by the response *)
(* or the RandomAI fallen back to.                                      *)
LLMAIEngine_GetBestMove(ctx, G, generated, llm, rng) ==
    LET chosen(via, result) ==
            [via |-> via, outcome |-> result.outcome, err |-> result.err,
             move |-> result.move]
        answer(parsed) ==
            IF parsed.outcome = "error"
            THEN chosen("fallback", RandomAI_GetBestMove(ctx, generated, rng))
            ELSE chosen(IF ToLower(Trim(TrimSpace(llm.response), "\"'")) = "random"
                        THEN "random" ELSE "response", parsed)
    IN IF llm.err
       THEN chosen("fallback", RandomAI_GetBestMove(ctx, generated, rng))
       ELSE answer(parseMoveFromResponse(llm.response, G, generated, rng))

(* ------------------------------------------------------------------ *)
(* The HTTP server: requests handled concurrently on one game          *)
(* ------------------------------------------------------------------ *)
(* Move.String *)
MoveString(m) ==
    IF m.Type = Castling
    THEN (IF File(m.To) > File(m.From) THEN "O-O" ELSE "O-O-O")
    ELSE SquareString(m.From) \o SquareString(m.To) \o
         (IF m.Type # Promotion THEN ""
          ELSE CASE m.Promotion = Queen -> "Q"
                 [] m.Promotion = Rook -> "R"
                 [] m.Promotion = Bishop -> "B"
                 [] m.Promotion = Knight -> "N"
                 [] OTHER -> "")

(* Piece.String *)
PieceString(piece) ==
    IF IsEmpty(piece) THEN "." ELSE pieceToFENChar(piece)

moveToResponse(move) ==
    [From |-> SquareString(move.From), To |-> SquareString(move.To),
     Type |-> move.Type, Piece |-> PieceString(move.Piece),
     Notation |-> MoveString(move),
     Captured |-> IF IsEmpty(move.Captured) THEN ""
                  ELSE PieceString(move.Captured),
     Promotion |-> IF move.Promotion # Empty THEN move.Promotion ELSE ""]

(* gameToResponse, read off the game in one look.  The response's board *)
(* drawing shows the squares that its FEN field spells.                 *)
gameToResponse(id, G) ==
    [kind |-> "game",
     ID |-> id,
     Status |-> G.status,
     ActiveColor |-> G.activeColor,
     AIColor |-> IF id \in DOMAIN gameMetadata THEN gameMetadata[id] ELSE "black",
     FEN |-> ToFEN(G),
     MoveCount |-> G.moveCount,
     MoveHistory |-> [i \in 1..Len(MoveHistory(G)) |-> moveToResponse(MoveHistory(G)[i])]]

(* getPGN: nonInitial and gameFEN, from which the tags SetUp and FEN    *)
(* are written: [FEN "gameFEN"] if nonInitial.                          *)
getPGN(G) == [nonInitial |-> StartedFromFEN(G), gameFEN |-> ToFEN(G)]

(* The Game on which GenerateSAN, called by getPGN for the movetext,    *)
(* starts its replay.                                                   *)
replayStart(G) ==
    IF G.startedFromFEN /\ G.startingFEN # ""
    THEN ParseFEN(NewGame, G.startingFEN).game
    ELSE NewGame

(* The answer of getLegalMoves. *)
legalMovesResponse(G) ==
    LET listed(legalMoves) ==
            [kind |-> IF legalMoves.overflow THEN Overflow ELSE "legal_moves",
             legal_moves |-> [i \in 1..Len(legalMoves.moves) |->
                                 moveToResponse(legalMoves.moves[i])],
             count |-> Len(legalMoves.moves)]
    IN listed(GetAllLegalMoves(G))

(* What a handler that only reads the game answers. *)
responseOf(handler, id, G) ==
    IF handler = "getLegalMoves" THEN legalMovesResponse(G)
    ELSE gameToResponse(id, G)

(* The handlers that look a game up, and the bodies sent to them. *)
Handlers ==
    {"makeMove", "loadFromFEN", "getAIMove", "getAIHint", "getGame", "getLegalMoves"}

ServerNotations == {"e2e4", "e7e5", "e2e5", "f6g7"}

ServerFENInputs == {FENMate, FENShortRank}

Bodies(handler) ==
    IF handler = "makeMove" THEN ServerNotations
    ELSE IF handler = "loadFromFEN" THEN ServerFENInputs
    ELSE {""}

(* Where a handler stands once it has looked the game up. *)
FirstStep(handler) ==
    IF handler \in {"makeMove", "loadFromFEN", "getAIHint"} THEN "lock"
    ELSE IF handler = "getAIMove" THEN "turn"
    ELSE "read"

At(r, handlers, pc) ==
    requests[r].handler \in handlers /\ requests[r].pc = pc

(* The handler returns: a deferred or explicit Unlock, if it locked. *)
Unlocked(r) == IF requests[r].lock /\ mutex = r THEN 0 ELSE mutex

(* createGame, all of it under the write lock of the maps. *)
createGame(r) ==
    /\ requests[r].pc = "idle"
    /\ nextID <= MaxGames
    /\ \E aiColor \in {"white", "black"} :
          gameMetadata' = [id \in DOMAIN gameMetadata \cup {nextID} |->
                              IF id = nextID THEN aiColor ELSE gameMetadata[id]]
    /\ game' = NewGame
    /\ games' = games \cup {nextID}
    /\ gameLocks' = gameLocks \cup {nextID}
    /\ nextID' = nextID + 1
    /\ UNCHANGED <<mutex, requests, ret, retained, start, undone>>

(* deleteGame of a game that exists, under the write lock of the maps. *)
deleteGame(r) ==
    /\ requests[r].pc = "idle"
    /\ \E id \in games :
          /\ games' = games \ {id}
          /\ gameLocks' = gameLocks \ {id}
    /\ UNCHANGED <<game, nextID, gameMetadata, mutex, requests,
                   ret, retained, start, undone>>

(* The start of every other handler: under the read lock of the maps it *)
(* reads the game and, where it locks, the game's mutex.                *)
lookup(r) ==
    /\ requests[r].pc = "idle"
    /\ \E id \in games, handler \in Handlers :
          \E body \in Bodies(handler) :
             requests' = [requests EXCEPT ![r] =
                 [NoRequest EXCEPT !.handler = handler, !.pc = FirstStep(handler),
                                   !.id = id, !.lock = id \in gameLocks,
                                   !.input = body]]
    /\ UNCHANGED <<game, nextID, games, gameMetadata, gameLocks, mutex,
                   ret, retained, start, undone>>

(* getAIMove answers 400 unless it is the AI's turn; it reads the       *)
(* active colour before it locks.                                       *)
getAIMoveTurn(r) ==
    /\ At(r, {"getAIMove"}, "turn")
    /\ requests' = [requests EXCEPT ![r] =
          IF game.activeColor # gameMetadata[requests[r].id] THEN NoRequest
          ELSE [requests[r] EXCEPT !.pc = "lock"]]
    /\ UNCHANGED <<game, nextID, games, gameMetadata, gameLocks, mutex,
                   ret, retained, start, undone>>

(* lock.Lock() skipped: the handler goes on without the mutex. *)
lockGame_NoLock(r) ==
    /\ requests[r].pc = "lock"
    /\ requests' = [requests EXCEPT ![r] =
          [requests[r] EXCEPT !.pc = "locked", !.lock = FALSE, !.before = game]]
    /\ UNCHANGED <<game, nextID, games, gameMetadata, gameLocks, mutex,
                   ret, retained, start, undone>>

(* if lock != nil { lock.Lock() }: waits until the mutex is free. *)
lockGame(r) ==
    /\ requests[r].pc = "lock"
    /\ requests[r].lock => mutex = 0
    /\ mutex' = IF requests[r].lock THEN r ELSE mutex
    /\ requests' = [requests EXCEPT ![r] =
          [requests[r] EXCEPT !.pc = "locked", !.before = game]]
    /\ UNCHANGED <<game, nextID, games, gameMetadata, gameLocks,
                   ret, retained, start, undone>>

(* makeMove up to the first writes of Game.MakeMove: ParseMove, the     *)
(* legality test and g.makeMove(move).  A rejected move is answered and *)
(* the mutex released; a call that does not return keeps it.            *)
makeMoveBegin(r) ==
    /\ At(r, {"makeMove"}, "locked")
    /\ \E parsed \in {ParseMove(game, requests[r].input)} :
          \E legal \in {IF parsed.err # "" THEN F ELSE IsLegalMove(game, parsed.move)} :
             IF legal = F
             THEN /\ requests' = [requests EXCEPT ![r] = NoRequest]
                  /\ mutex' = Unlocked(r)
                  /\ UNCHANGED game
             ELSE IF legal = T
             THEN /\ game' = makeMove(game, parsed.move)
                  /\ requests' = [requests EXCEPT ![r] =
                        [requests[r] EXCEPT !.pc = "moved", !.move = parsed.move]]
                  /\ UNCHANGED mutex
             ELSE /\ requests' = [requests EXCEPT ![r] =
                        [requests[r] EXCEPT !.pc = legal]]
                  /\ UNCHANGED <<game, mutex>>
    /\ UNCHANGED <<nextID, games, gameMetadata, gameLocks,
                   ret, retained, start, undone>>

(* The writes of Game.MakeMove after g.makeMove(move). *)
recordMove(G, move) ==
    updateGameStatus(
      [G EXCEPT !.moveHistory = Append(G.moveHistory, move),
                !.activeColor = IF G.activeColor = White THEN Black ELSE White,
                !.moveCount = IF G.activeColor = White THEN G.moveCount
                              ELSE G.moveCount + 1])

(* The rest of makeMove: the move is recorded, the side and the status  *)
(* are updated, the response is built and the mutex released.           *)
makeMoveEnd(r) ==
    /\ At(r, {"makeMove"}, "moved")
    /\ \E made \in {recordMove(game, requests[r].move)} :
          /\ game' = made.game
          /\ IF made.outcome = "ok"
             THEN /\ requests' = [requests EXCEPT ![r] = NoRequest]
                  /\ mutex' = Unlocked(r)
             ELSE /\ requests' = [requests EXCEPT ![r] =
                        [requests[r] EXCEPT !.pc = made.outcome]]
                  /\ UNCHANGED mutex
    /\ UNCHANGED <<nextID, games, gameMetadata, gameLocks,
                   ret, retained, start, undone>>

(* loadFromFEN up to the first writes of ParseFEN: the board is cleared *)
(* and the pieces of the first field are placed.                        *)
loadFromFENBegin(r) ==
    /\ At(r, {"loadFromFEN"}, "locked")
    /\ \E parts \in {Fields(TrimSpace(requests[r].input))} :
          game' = IF Len(parts) < 4 THEN game
                  ELSE fenPlacement(game, Split(parts[1], "/")).game
    /\ requests' = [requests EXCEPT ![r] = [requests[r] EXCEPT !.pc = "placed"]]
    /\ UNCHANGED <<nextID, games, gameMetadata, gameLocks, mutex,
                   ret, retained, start, undone>>

(* The rest of ParseFEN, then Unlock; a FEN that loaded is answered     *)
(* with the game, read after the mutex was released.                    *)
loadFromFENEnd(r) ==
    /\ At(r, {"loadFromFEN"}, "placed")
    /\ \E loaded \in {ParseFEN(game, requests[r].input)} :
          /\ game' = loaded.game
          /\ IF loaded.outcome \in {"ok", "error"}
             THEN /\ requests' = [requests EXCEPT ![r] =
                        IF loaded.outcome = "ok"
                        THEN [requests[r] EXCEPT !.pc = "read"]
                        ELSE NoRequest]
                  /\ mutex' = Unlocked(r)
             ELSE /\ requests' = [requests EXCEPT ![r] =
                        [requests[r] EXCEPT !.pc = loaded.outcome]]
                  /\ UNCHANGED mutex
    /\ UNCHANGED <<nextID, games, gameMetadata, gameLocks,
                   ret, retained, start, undone>>

(* getAIMove and getAIHint inside the mutex: the engine computes on the *)
(* game without writing to it, then the mutex is released.              *)
getAIBestMove(r) ==
    /\ At(r, {"getAIMove", "getAIHint"}, "locked")
    /\ requests' = [requests EXCEPT ![r] = NoRequest]
    /\ mutex' = Unlocked(r)
    /\ UNCHANGED <<game, nextID, games, gameMetadata, gameLocks,
                   ret, retained, start, undone>>

(* getGame, getLegalMoves and the answer of loadFromFEN read the game   *)
(* without its mutex.                                                   *)
readGame(r) ==
    /\ requests[r].pc = "read"
    /\ requests' = [requests EXCEPT ![r] =
          [requests[r] EXCEPT
              !.pc = "respond",
              !.response = responseOf(requests[r].handler, requests[r].id, game)]]
    /\ UNCHANGED <<game, nextID, games, gameMetadata, gameLocks, mutex,
                   ret, retained, start, undone>>

(* c.JSON: the response is sent. *)
respond(r) ==
    /\ requests[r].pc = "respond"
    /\ requests' = [requests EXCEPT ![r] = NoRequest]
    /\ UNCHANGED <<game, nextID, games, gameMetadata, gameLocks, mutex,
                   ret, retained, start, undone>>

ServerNext ==
    \E r \in Requests :
       \/ createGame(r)
       \/ deleteGame(r)
       \/ lookup(r)
       \/ getAIMoveTurn(r)
       \/ lockGame(r)
       \/ makeMoveBegin(r)
       \/ makeMoveEnd(r)
       \/ loadFromFENBegin(r)
       \/ loadFromFENEnd(r)
       \/ getAIBestMove(r)
       \/ readGame(r)
       \/ respond(r)

ServerSpec == Init /\ [][ServerNext]_vars

(* ------------------------------------------------------------------ *)
(* Games handed to the move-selection strategies                       *)
(* ------------------------------------------------------------------ *)
(* What the strategies are called with: the contexts, the draws of the *)
(* random generator (rng.Intn(1000) milliseconds of delay, rng.Intn of *)
(* the number of moves) and the answers of the language model.         *)
Contexts ==
    {Background,
     [cancelled |-> TRUE, at |-> -1, err |-> Canceled],
     [cancelled |-> TRUE, at |-> 300, err |-> DeadlineExceeded]}

Draws(generated) ==
    [thinkTime : {0, MaxThinkTime},
     intn : 0..(IF Len(generated.moves) = 0 THEN 0 ELSE Len(generated.moves) - 1),
     coin : {"timer", "ctx"}]

LLMResponses == {"'Random'", "Move: e2e4.", "I pass\nBest move: d2d4!", "e2e5?"}

LLMReplies ==
    {[err |-> TRUE, response |-> ""]}
    \cup {[err |-> FALSE, response |-> response] : response \in LLMResponses}

(* A call of GetBestMove as ret records it: the strategy, who chose    *)
(* (via), the context, the delay and the result.                       *)
BestMoveCall(strategy, via, ctx, thinkTime, result) ==
    [op |-> "GetBestMove", outcome |-> result.outcome,
     kind |-> result.move.Type, piece |-> result.move.Piece.Type,
     strategy |-> strategy, via |-> via, ctx |-> ctx, thinkTime |-> thinkTime,
     err |-> result.err, move |-> result.move]

CallGetBestMove ==
    /\ Idle
    /\ \E generated \in {GenerateAllLegalMoves(game)}, ctx \in Contexts :
          \/ \E rng \in Draws(generated) :
                ret' = BestMoveCall("random", "random", ctx, rng.thinkTime,
                                    RandomAI_GetBestMove(ctx, generated, rng))
          \/ \E difficulty \in Difficulties, coin \in {"timer", "ctx"} :
                ret' = BestMoveCall("minimax", "minimax", ctx, depthOf(difficulty) * 100,
                          MinimaxAI_GetBestMove(ctx, game, generated, difficulty, coin))
          \/ \E rng \in Draws(generated), llm \in LLMReplies :
                \E result \in {LLMAIEngine_GetBestMove(ctx, game, generated, llm, rng)} :
                   ret' = BestMoveCall("llm", result.via, ctx, rng.thinkTime, result)
    /\ UNCHANGED <<game, retained, start, undone>>
    /\ UNCHANGED server

LoadAIPosition ==
    /\ Idle
    /\ UNCHANGED server
    /\ Len(game.moveHistory) <= MaxLoadPly
    /\ \E fen \in AIFENInputs :
          \E r \in {ParseFEN(game, fen)} :
             /\ game' = r.game
             /\ ret' = [op |-> "ParseFEN", outcome |-> r.outcome,
                        kind |-> "", piece |-> ""]
             /\ retained' = IF r.outcome = "ok" THEN <<>> ELSE retained
             /\ start' = IF Len(r.game.moveHistory) = 0 THEN r.game ELSE start
             /\ undone' = IF r.outcome = "ok" THEN 0 ELSE undone

AINext ==
    \/ LoadAIPosition
    \/ CallGetBestMove
    \/ Return

AISpec == Init /\ [][AINext]_vars

(* ------------------------------------------------------------------ *)
(* The requests that take the mutex of a game, scheduled fairly        *)
(* ------------------------------------------------------------------ *)
(* The handlers that lock the game, and the bodies sent to them: a     *)
(* position with a rook and open lines, a king move and a rook move     *)
(* that is neither along a rank nor along a file.                       *)
LockingHandlers == {"makeMove", "loadFromFEN", "getAIMove", "getAIHint"}

LockNotations == {"e1e2", "h1g3"}

LockFENInputs == {FENCastle}

LockBodies(handler) ==
    IF handler = "makeMove" THEN LockNotations
    ELSE IF handler = "loadFromFEN" THEN LockFENInputs
    ELSE {""}

(* The look-up of the handlers that lock, under the read lock of the   *)
(* maps.                                                                *)
lockingLookup(r) ==
    /\ requests[r].pc = "idle"
    /\ \E id \in games, handler \in LockingHandlers :
          \E body \in LockBodies(handler) :
             requests' = [requests EXCEPT ![r] =
                 [NoRequest EXCEPT !.handler = handler, !.pc = FirstStep(handler),
                                   !.id = id, !.lock = id \in gameLocks,
                                   !.input = body]]
    /\ UNCHANGED <<game, nextID, games, gameMetadata, gameLocks, mutex,
                   ret, retained, start, undone>>

LockNext ==
    \E r \in Requests :
       \/ createGame(r)
       \/ lockingLookup(r)
       \/ getAIMoveTurn(r)
       \/ lockGame(r)
       \/ makeMoveBegin(r)
       \/ makeMoveEnd(r)
       \/ loadFromFENBegin(r)
       \/ loadFromFENEnd(r)
       \/ getAIBestMove(r)
       \/ readGame(r)
       \/ respond(r)

(* The steps a handler takes without waiting: at these the goroutine   *)
(* of the request can run.                                              *)
CanRun(r) ==
    requests[r].pc \in {"turn", "locked", "moved", "placed", "read", "respond"}

(* The goroutine of a request is scheduled: a handler does not stand    *)
(* forever at a step it can take.  A handler waiting in lock.Lock()     *)
(* gets the mutex if it is free again and again: sync.Mutex hands the   *)
(* mutex to a waiter that has waited long (starvation mode).  Requests  *)
(* need not arrive.                                                     *)
LockFairness ==
    \A r \in Requests : []<>(~CanRun(r)) /\ SF_vars(lockGame(r))

LockSpec == Init /\ [][LockNext]_vars /\ LockFairness

(* ------------------------------------------------------------------ *)
(* The server's maps and their mutex gamesMux                          *)
(* ------------------------------------------------------------------ *)
(* The number of games created while the maps are watched. *)
MaxMapGames == 2

(* The handlers that write the maps and two of those that read them.   *)
MapWriters == {"createGame", "deleteGame"}
MapReaders == {"getGame", "listGames"}

(* s.gamesMux.Lock(): waits until no request holds gamesMux. *)
gamesMuxLock(r) ==
    /\ requests[r].pc = "idle"
    /\ \A q \in Requests : requests[q].gamesMux = ""
    /\ \E handler \in MapWriters, id \in 1..MaxMapGames :
          /\ handler = "createGame" => nextID <= MaxMapGames
          /\ requests' = [requests EXCEPT ![r] =
                [NoRequest EXCEPT !.handler = handler, !.pc = "maps",
                                  !.id = IF handler = "createGame" THEN nextID ELSE id,
                                  !.gamesMux = "Lock"]]
    /\ UNCHANGED <<game, nextID, games, gameMetadata, gameLocks, mutex,
                   ret, retained, start, undone>>

(* s.gamesMux.RLock(): waits until no request holds gamesMux for       *)
(* writing.                                                             *)
gamesMuxRLock(r) ==
    /\ requests[r].pc = "idle"
    /\ \A q \in Requests : requests[q].gamesMux # "Lock"
    /\ \E handler \in MapReaders, id \in 1..MaxMapGames :
          requests' = [requests EXCEPT ![r] =
              [NoRequest EXCEPT !.handler = handler, !.pc = "maps", !.id = id,
                                !.gamesMux = "RLock"]]
    /\ UNCHANGED <<game, nextID, games, gameMetadata, gameLocks, mutex,
                   ret, retained, start, undone>>

(* createGame after Lock: the writes of the three maps, the response   *)
(* built by gameToResponse, and the deferred Unlock.                    *)
createGameLocked(r) ==
    /\ At(r, {"createGame"}, "maps")
    /\ \E aiColor \in {"white", "black"} :
          gameMetadata' = [id \in DOMAIN gameMetadata \cup {nextID} |->
                              IF id = nextID THEN aiColor ELSE gameMetadata[id]]
    /\ game' = NewGame
    /\ games' = games \cup {nextID}
    /\ gameLocks' = gameLocks \cup {nextID}
    /\ nextID' = nextID + 1
    /\ requests' = [requests EXCEPT ![r] = NoRequest]
    /\ UNCHANGED <<mutex, ret, retained, start, undone>>

(* deleteGame after Lock: 404 for a game that does not exist, else the  *)
(* two deletes, and the deferred Unlock.                                *)
deleteGameLocked(r) ==
    /\ At(r, {"deleteGame"}, "maps")
    /\ games' = games \ {requests[r].id}
    /\ gameLocks' = IF requests[r].id \in games THEN gameLocks \ {requests[r].id}
                    ELSE gameLocks
    /\ requests' = [requests EXCEPT ![r] = NoRequest]
    /\ UNCHANGED <<game, nextID, gameMetadata, mutex, ret, retained, start, undone>>

(* listGames after RLock: gameToResponse for every game, then the       *)
(* deferred RUnlock.                                                    *)
listGames(r) ==
    /\ At(r, {"listGames"}, "maps")
    /\ requests' = [requests EXCEPT ![r] = NoRequest]
    /\ UNCHANGED <<game, nextID, games, gameMetadata, gameLocks, mutex,
                   ret, retained, start, undone>>

(* getGame after RLock: s.games[gameID], RUnlock, and 404 for a game    *)
(* that does not exist.                                                 *)
getGameLookup(r) ==
    /\ At(r, {"getGame"}, "maps")
    /\ requests' = [requests EXCEPT ![r] =
          IF requests[r].id \in games
          THEN [requests[r] EXCEPT !.pc = "response", !.gamesMux = ""]
          ELSE NoRequest]
    /\ UNCHANGED <<game, nextID, games, gameMetadata, gameLocks, mutex,
                   ret, retained, start, undone>>

(* getGame's gameToResponse: it reads s.gameMetadata[id].  A read while *)
(* createGame is writing the map is a data race: the handler answers    *)
(* or the runtime stops the program.                                    *)
getGameResponse(r) ==
    /\ At(r, {"getGame"}, "response")
    /\ \E outcome \in IF \E w \in Requests : At(w, {"createGame"}, "maps")
                       THEN {"respond", "fatal"} ELSE {"respond"} :
          requests' = [requests EXCEPT ![r] =
              [requests[r] EXCEPT
                  !.pc = outcome,
                  !.response = [kind |-> "game", ID |-> requests[r].id,
                                AIColor |-> IF requests[r].id \in DOMAIN gameMetadata
                                            THEN gameMetadata[requests[r].id]
                                            ELSE "black"]]]
    /\ UNCHANGED <<game, nextID, games, gameMetadata, gameLocks, mutex,
                   ret, retained, start, undone>>

MapsNext ==
    \E r \in Requests :
       \/ gamesMuxLock(r)
       \/ gamesMuxRLock(r)
       \/ createGameLocked(r)
       \/ deleteGameLocked(r)
       \/ listGames(r)
       \/ getGameLookup(r)
       \/ getGameResponse(r)
       \/ respond(r)

MapsSpec == Init /\ [][MapsNext]_vars

(* ------------------------------------------------------------------ *)
(* The storage of a game during the calls that only read it            *)
(* ------------------------------------------------------------------ *)
(* A Game points to its Board and to the array of its history.  While  *)
(* a call runs on the game there are the board and the array of the    *)
(* game itself ("game"), those of the Game built by copy() ("copy"),    *)
(* and those of the Game that GenerateSAN replays the history on        *)
(* ("replay").                                                          *)
(* The pointers of the game the call runs on. *)
OwnPointers == [board |-> "game", moveHistory |-> "game"]

(* copy() handing its own board to the new Game. *)
copyPointers_SharedBoard(pointers) ==
    [board |-> pointers.board, moveHistory |-> "copy"]

(* copy(): g.board.Copy() is a new Board with the squares copied, and   *)
(* the history is copied into a new array: the pointers of newGame.     *)
copyPointers(pointers) ==
    [board |-> "copy", moveHistory |-> "copy"]

(* gameCopy := g.copy(); gameCopy.makeMoveWithoutStatusUpdate(move):    *)
(* SetPiece writes to the board gameCopy points to.  The result is the  *)
(* game as it reads afterwards through its own pointers.                *)
speculate(G, move) ==
    LET written(gameCopy, moved) ==
            [G EXCEPT
               !.board = IF gameCopy.board = OwnPointers.board
                         THEN moved.board ELSE G.board,
               !.moveHistory = IF gameCopy.moveHistory = OwnPointers.moveHistory
                               THEN moved.moveHistory ELSE G.moveHistory]
    IN written(copyPointers(OwnPointers),
               CHOOSE g \in {makeMoveWithoutStatusUpdate(copy(G), move)} : TRUE)

(* The game after IsLegalMove(move) has returned: the copy is made and  *)
(* the move tried once the move has passed the tests before it.         *)
IsLegalMove_Effect(G, move) ==
    LET piece == GetPiece(G.board, move.From)
        targetPiece == GetPiece(G.board, move.To)
    IN IF IsEmpty(piece) \/ piece.Color # G.activeColor THEN G
       ELSE IF ~IsEmpty(targetPiece) /\ targetPiece.Type = King THEN G
       ELSE IF isPseudoLegalMove(G, move) # T THEN G
       ELSE speculate(G, move)

RECURSIVE legalAmong_Effect(_, _, _)
(* The game after the inner loop of GetAllLegalMoves has tested the     *)
(* moves from the k-th on.                                              *)
legalAmong_Effect(G, moves, k) ==
    LET tried(after) ==
            IF after = G THEN legalAmong_Effect(G, moves, k + 1)
            ELSE legalAmong_Effect(after, moves, k + 1)
    IN IF k > Len(moves) THEN G
       ELSE tried(IsLegalMove_Effect(G, moves[k]))

(* The game after canCastleKingside / canCastleQueenside has returned:  *)
(* with the right held, the squares between king and rook empty and    *)
(* the king not in check, wouldBeInCheckAfterMove tries the king's two  *)
(* steps on a copy each, the second if the first is safe.               *)
canCastle_Effect(G, color, kingside) ==
    LET kingSquare == IF color = Black THEN E8 ELSE E1
        rookSquare == IF color = Black
                      THEN (IF kingside THEN H8 ELSE A8)
                      ELSE (IF kingside THEN H1 ELSE A1)
        step == IF kingside THEN 1 ELSE -1
        held == CASE color = White /\ kingside -> G.castlingRights.WhiteKingside
                  [] color = White /\ ~kingside -> G.castlingRights.WhiteQueenside
                  [] color = Black /\ kingside -> G.castlingRights.BlackKingside
                  [] OTHER -> G.castlingRights.BlackQueenside
        between == IF kingside THEN (kingSquare + 1)..(rookSquare - 1)
                   ELSE (rookSquare + 1)..(kingSquare - 1)
        tempMove(n) == GenMove(kingSquare, kingSquare + n * step,
                               GetPiece(G.board, kingSquare))
        second(first) ==
            IF wouldBeInCheckAfterMove(G, tempMove(1), color) # F THEN first
            ELSE speculate(first, tempMove(2))
    IN IF ~held THEN G
       ELSE IF \E square \in between : ~IsEmpty(GetPiece(G.board, square)) THEN G
       ELSE IF isInCheck(G, color, {}) # F THEN G
       ELSE second(CHOOSE g \in {speculate(G, tempMove(1))} : TRUE)

(* The game after generateCastlingMoves has returned. *)
generateCastlingMoves_Effect(G, from) ==
    LET color == GetPiece(G.board, from).Color
    IN IF from # (IF color = Black THEN E8 ELSE E1) THEN G
       ELSE canCastle_Effect(CHOOSE g \in {canCastle_Effect(G, color, TRUE)} : TRUE,
                             color, FALSE)

RECURSIVE GetAllLegalMoves_From(_, _)
(* The game after the loop of GetAllLegalMoves has run from square on:  *)
(* squares that are empty or hold a piece of the other side are passed  *)
(* over; the moves of each piece of the side to move are generated, the *)
(* castling moves among them, and tested with IsLegalMove.              *)
GetAllLegalMoves_From(G, square) ==
    LET later == {sq \in OwnSquares(G) : sq >= square}
        visited(sq, after) ==
            IF after = G THEN GetAllLegalMoves_From(G, sq + 1)
            ELSE GetAllLegalMoves_From(after, sq + 1)
        tested(sq, gen, generated) ==
            IF gen.overflow THEN G
            ELSE visited(sq, legalAmong_Effect(generated, gen.moves, 1))
        visit(sq, piece) ==
            tested(sq,
                   CHOOSE gen \in {generatePseudoLegalMoves(G, sq, piece, {})} : TRUE,
                   CHOOSE g \in {IF piece.Type = King
                                 THEN generateCastlingMoves_Effect(G, sq)
                                 ELSE G} : TRUE)
        first == CHOOSE sq \in later : \A other \in later : sq <= other
    IN IF later = {} THEN G
       ELSE visit(first, GetPiece(G.board, first))

GetAllLegalMoves_Effect(G) == GetAllLegalMoves_From(G, 0)

(* The calls that read the game.  ret records in speculated whether    *)
(* the call applied a move to a Game other than the one it was called  *)
(* on.  ParseMove reads the board and builds a Move; GenerateSAN reads  *)
(* startedFromFEN, startingFEN and moveHistory and replays the moves    *)
(* on a Game of its own from NewGame(): neither writes to the game or   *)
(* makes a copy of it.  Whether GenerateSAN returns is left open here.  *)
Returned(result) ==
    CASE result = Overflow -> "overflow"
      [] result = Hang -> "hang"
      [] OTHER -> "ok"

CallIsLegalMove ==
    /\ Idle
    /\ UNCHANGED server
    /\ \E move \in ParsedMoves(game) :
          \E legal \in {IsLegalMove(game, move)} :
             /\ game' = IsLegalMove_Effect(game, move)
             /\ ret' = [op |-> "IsLegalMove", outcome |-> Returned(legal),
                        kind |-> move.Type, piece |-> move.Piece.Type,
                        speculated |-> legal = T]
    /\ UNCHANGED <<retained, start, undone>>

CallGetAllLegalMoves ==
    /\ Idle
    /\ UNCHANGED server
    /\ \E legalMoves \in {GetAllLegalMoves(game)} :
          /\ game' = GetAllLegalMoves_Effect(game)
          /\ ret' = [op |-> "GetAllLegalMoves",
                     outcome |-> IF legalMoves.overflow THEN "overflow" ELSE "ok",
                     kind |-> "", piece |-> "",
                     speculated |-> ~legalMoves.overflow /\ Len(legalMoves.moves) > 0]
    /\ UNCHANGED <<retained, start, undone>>

CallParseMove ==
    /\ Idle
    /\ UNCHANGED server
    /\ \E notation \in Notations(game) :
          \E parsed \in {ParseMove(game, notation)} :
             ret' = [op |-> "ParseMove",
                     outcome |-> IF parsed.err = "" THEN "ok" ELSE "error",
                     kind |-> parsed.move.Type, piece |-> parsed.move.Piece.Type,
                     speculated |-> FALSE]
    /\ UNCHANGED <<game, retained, start, undone>>

CallGenerateSAN ==
    /\ Idle
    /\ UNCHANGED server
    /\ \E outcome \in {"ok", "overflow", "hang"} :
          ret' = [op |-> "GenerateSAN", outcome |-> outcome,
                  kind |-> "", piece |-> "",
                  speculated |-> Len(game.moveHistory) > 0]
    /\ UNCHANGED <<game, retained, start, undone>>

(* The positions the reading calls are made in: castling available to  *)
(* either side, an en-passant capture, a promotion and a mate in one.   *)
QueryFENInputs == {FENCastle, FENCastleBlack, FENEnPassant, FENPromotion, FENMate}

LoadQueryPosition ==
    /\ Idle
    /\ UNCHANGED server
    /\ Len(game.moveHistory) <= MaxLoadPly
    /\ \E fen \in QueryFENInputs :
          \E r \in {ParseFEN(game, fen)} :
             /\ game' = r.game
             /\ ret' = [op |-> "ParseFEN", outcome |-> r.outcome,
                        kind |-> "", piece |-> ""]
             /\ retained' = IF r.outcome = "ok" THEN <<>> ELSE retained
             /\ start' = IF Len(r.game.moveHistory) = 0 THEN r.game ELSE start
             /\ undone' = IF r.outcome = "ok" THEN 0 ELSE undone

(* A move is played before the reading calls: MakeMove as in           *)
(* CallMakeMove, up to MaxQueryPlies moves.                             *)
MaxQueryPlies == 1

PlayQueryMove ==
    /\ Idle
    /\ UNCHANGED server
    /\ Len(game.moveHistory) < MaxQueryPlies
    /\ \E move \in MoveInputs(game) :
          \E r \in {MakeMove(game, move)} :
             /\ game' = r.game
             /\ ret' = [op |-> "MakeMove", outcome |-> r.outcome,
                        kind |-> move.Type, piece |-> move.Piece.Type]
             /\ retained' = IF r.outcome = "ok" THEN Append(retained, Snapshot(game))
                            ELSE retained
             /\ undone' = IF r.outcome = "ok" THEN 0 ELSE undone
             /\ UNCHANGED start

QueryNext ==
    \/ LoadQueryPosition
    \/ PlayQueryMove
    \/ CallIsLegalMove
    \/ CallGetAllLegalMoves
    \/ CallParseMove
    \/ CallGenerateSAN
    \/ Return

QuerySpec == Init /\ [][QueryNext]_vars

(* ------------------------------------------------------------------ *)
(* Games played from the starting position                             *)
(* ------------------------------------------------------------------ *)
(* The number of moves played from the starting position.              *)
MaxDevelopPlies == 6

(* The moves that clear the squares between king and king's rook: the  *)
(* knight to f3 / f6, a pawn out of the bishop's way, the bishop next   *)
(* to it.                                                               *)
DevelopNotations ==
    {"g1f3", "g8f6", "e2e3", "e7e6", "g2g3", "g7g6",
     "f1e2", "f8e7", "f1g2", "f8g7"}

(* A client plays a developing move onto an empty square: ParseMove,    *)
(* then MakeMove of the move it returned.                               *)
PlayFromStart ==
    /\ Idle
    /\ UNCHANGED server
    /\ ~game.startedFromFEN
    /\ Len(game.moveHistory) < MaxDevelopPlies
    /\ \E notation \in DevelopNotations :
          \E parsed \in {ParseMove(game, notation)} :
             /\ parsed.err = ""
             /\ IsEmpty(GetPiece(game.board, parsed.move.To))
             /\ \E r \in {MakeMove(game, parsed.move)} :
                   /\ game' = r.game
                   /\ ret' = [op |-> "MakeMove", outcome |-> r.outcome,
                              kind |-> parsed.move.Type,
                              piece |-> parsed.move.Piece.Type]
                   /\ retained' = IF r.outcome = "ok"
                                  THEN Append(retained, Snapshot(game))
                                  ELSE retained
                   /\ undone' = IF r.outcome = "ok" THEN 0 ELSE undone
                   /\ UNCHANGED start

OpeningNext ==
    \/ PlayFromStart
    \/ Return

OpeningSpec == Init /\ [][OpeningNext]_vars

(* ------------------------------------------------------------------ *)
(* A pawn's way from the starting position to the back rank            *)
(* ------------------------------------------------------------------ *)
(* The number of moves played: the h-pawn needs five moves of White.   *)
MaxPawnRunPlies == 9

(* White's h-pawn advances to h6, takes on g7 and moves onto the back   *)
(* rank, with or without a promotion letter; Black moves a knight out  *)
(* and back.                                                            *)
PawnRunNotations ==
    {"h2h4", "h4h5", "h5h6", "h6g7", "g7h8", "g7g8", "g7f8", "g7h8Q",
     "g8f6", "f6g8", "b8c6", "c6b8"}

(* Who builds the move handed to MakeMove. *)
MoveSources == {"ParseMove", "GetAllLegalMoves", "RandomAI"}

(* The moves with the source and destination of wanted that the source *)
(* offers in game G: the move ParseMove returned, the moves of          *)
(* GetAllLegalMoves, the moves RandomAI.GetBestMove may return.         *)
OfferedBy(source, G, wanted) ==
    LET same(move) == move.From = wanted.From /\ move.To = wanted.To
        listed(legalMoves) ==
            IF legalMoves.overflow THEN {}
            ELSE {legalMoves.moves[i] : i \in 1..Len(legalMoves.moves)}
        chosen(generated) ==
            {best.move :
                best \in {b \in {RandomAI_GetBestMove(Background, generated,
                                      [thinkTime |-> 0, intn |-> i, coin |-> "timer"]) :
                                   i \in 0..(Len(generated.moves) - 1)} :
                             b.outcome = "ok"}}
    IN CASE source = "ParseMove" -> {wanted}
         [] source = "GetAllLegalMoves" -> {m \in listed(GetAllLegalMoves(G)) : same(m)}
         [] source = "RandomAI" -> {m \in chosen(GenerateAllLegalMoves(G)) : same(m)}

(* A client plays a move of the run: it takes the move from one of the *)
(* sources and calls MakeMove.                                          *)
PlayPawnRun ==
    /\ Idle
    /\ UNCHANGED server
    /\ ~game.startedFromFEN
    /\ Len(game.moveHistory) < MaxPawnRunPlies
    /\ \E notation \in PawnRunNotations, source \in MoveSources :
          \E parsed \in {ParseMove(game, notation)} :
             /\ parsed.err = ""
             /\ \E move \in OfferedBy(source, game, parsed.move) :
                   \E r \in {MakeMove(game, move)} :
                      /\ game' = r.game
                      /\ ret' = [op |-> "MakeMove", outcome |-> r.outcome,
                                 kind |-> move.Type, piece |-> move.Piece.Type,
                                 source |-> source]
                      /\ retained' = IF r.outcome = "ok"
                                     THEN Append(retained, Snapshot(game))
                                     ELSE retained
                      /\ undone' = IF r.outcome = "ok" THEN 0 ELSE undone
                      /\ UNCHANGED start

PawnRunNext ==
    \/ PlayPawnRun
    \/ Return

PawnRunSpec == Init /\ [][PawnRunNext]_vars

(* ------------------------------------------------------------------ *)
(* Vocabulary of the properties: the rules of chess, stated on the     *)
(* board alone and independently of the engine's generators.           *)
(* ------------------------------------------------------------------ *)
SquareAt(file, rank) == rank * 8 + file

Between(s, t) ==
    LET df == File(t) - File(s)
        dr == Rank(t) - Rank(s)
        n == IF abs(df) > abs(dr) THEN abs(df) ELSE abs(dr)
    IN {SquareAt(File(s) + k * sign(df), Rank(s) + k * sign(dr)) : k \in 1..(n - 1)}

PathEmpty(b, s, t) == \A m \in Between(s, t) : IsEmpty(b[m])

(* The piece on s attacks square t. *)
Attacks(b, s, t) ==
    LET df == File(t) - File(s)
        dr == Rank(t) - Rank(s)
        straight == df = 0 \/ dr = 0
        diagonal == abs(df) = abs(dr)
    IN /\ s # t
       /\ CASE b[s].Type = Pawn -> abs(df) = 1 /\ dr = (IF b[s].Color = White THEN 1 ELSE -1)
            [] b[s].Type = Knight -> {abs(df), abs(dr)} = {1, 2}
            [] b[s].Type = King -> abs(df) <= 1 /\ abs(dr) <= 1
            [] b[s].Type = Rook -> straight /\ PathEmpty(b, s, t)
            [] b[s].Type = Bishop -> diagonal /\ PathEmpty(b, s, t)
            [] b[s].Type = Queen -> (straight \/ diagonal) /\ PathEmpty(b, s, t)
            [] OTHER -> FALSE

SquareAttacked(b, t, by) ==
    \E s \in Squares : ~IsEmpty(b[s]) /\ b[s].Color = by /\ Attacks(b, s, t)

KingSquares(b, color) == {s \in Squares : b[s] = Pc(King, color)}

KingAttacked(b, color) ==
    \E k \in KingSquares(b, color) : SquareAttacked(b, k, Opponent(color))

LastMove(G) == G.moveHistory[Len(G.moveHistory)]

(* A MakeMove call has just ended with the given outcome. *)
MakeMoveEnded(outcome) == ret.op = "MakeMove" /\ ret.outcome = outcome

(* A step that is a call of MakeMove. *)
MakeMoveStep == Idle /\ ret'.op = "MakeMove"

(* ------------------------------------------------------------------ *)
(* C1                                                                  *)
(* ------------------------------------------------------------------ *)
(* C1: a MakeMove call that does not play its move returns an error    *)
(* and leaves every field of the game as it was.                       *)
C1_IllegalMoveReturnsError ==
    [][(MakeMoveStep /\ ret'.outcome # "ok") =>
          (ret'.outcome = "error" /\ game' = game)]_vars

(* ------------------------------------------------------------------ *)
(* C2                                                                  *)
(* ------------------------------------------------------------------ *)
(* C2: in every position, every move returned by GetAllLegalMoves      *)
(* passes IsLegalMove, and the board after the move does not have the  *)
(* mover's king attacked.                                              *)
C2_GeneratedMovesAreLegal ==
    Idle =>
        LET legalMoves == GetAllLegalMoves(game)
        IN ~legalMoves.overflow =>
              \A i \in 1..Len(legalMoves.moves) :
                  /\ IsLegalMove(game, legalMoves.moves[i]) = T
                  /\ ~KingAttacked(makeMove(game, legalMoves.moves[i]).board,
                                   game.activeColor)

(* A position where the side to move is in check and GetAllLegalMoves  *)
(* returns moves: each of them has to answer the check.                *)
C2_Witness ==
    /\ Idle
    /\ KingAttacked(game.board, game.activeColor)
    /\ Len(GetAllLegalMoves(game).moves) > 0

(* ------------------------------------------------------------------ *)
(* C3                                                                  *)
(* ------------------------------------------------------------------ *)
(* The side to move has a move that IsLegalMove accepts. *)
HasLegalMove(G) == \E move \in MoveInputs(G) : IsLegalMove(G, move) = T

(* The status the claim derives from a position. *)
DerivedStatus(G) ==
    LET attacked == KingAttacked(G.board, G.activeColor)
    IN IF ~HasLegalMove(G)
       THEN (IF attacked
             THEN (IF G.activeColor = White THEN BlackWins ELSE WhiteWins)
             ELSE Draw)
       ELSE (IF attacked THEN Check ELSE InProgress)

(* C3: after every successful MakeMove the status is the one derived   *)
(* from the new position: the mover wins when the side to move has no  *)
(* legal move and its king is attacked, draw when it has no legal move *)
(* and its king is not attacked, check when it has a legal move and    *)
(* its king is attacked, in-progress otherwise.                        *)
C3_StatusDerivedFromPosition ==
    MakeMoveEnded("ok") => game.status = DerivedStatus(game)

(* ------------------------------------------------------------------ *)
(* C4                                                                  *)
(* ------------------------------------------------------------------ *)
PieceMovers == {Knight, Bishop, Rook, Queen}

(* C4: IsLegalMove accepts no knight, bishop, rook or queen move whose *)
(* destination holds a piece of the mover's colour.                    *)
C4_NoCaptureOfOwnPiece ==
    Idle =>
        \A move \in MoveInputs(game) :
            (move.Piece.Type \in PieceMovers /\ IsLegalMove(game, move) = T) =>
                GetPiece(game.board, move.To).Color # move.Piece.Color

(* ------------------------------------------------------------------ *)
(* C5                                                                  *)
(* ------------------------------------------------------------------ *)
KingHome(color) == IF color = White THEN E1 ELSE E8

RookHome(color, kingside) ==
    IF color = White THEN (IF kingside THEN H1 ELSE A1)
    ELSE (IF kingside THEN H8 ELSE A8)

RightHeld(rights, color, kingside) ==
    IF color = White
    THEN (IF kingside THEN rights.WhiteKingside ELSE rights.WhiteQueenside)
    ELSE (IF kingside THEN rights.BlackKingside ELSE rights.BlackQueenside)

(* The squares the king passes over and lands on. *)
KingPath(color, kingside) ==
    IF kingside THEN {KingHome(color) + 1, KingHome(color) + 2}
    ELSE {KingHome(color) - 1, KingHome(color) - 2}

RightMissing(G, kingside) == ~RightHeld(G.castlingRights, G.activeColor, kingside)

CastlingBlocked(G, kingside) ==
    ~PathEmpty(G.board, KingHome(G.activeColor), RookHome(G.activeColor, kingside))

CastlingThroughAttack(G, kingside) ==
    \E s \in KingPath(G.activeColor, kingside) :
        SquareAttacked(G.board, s, Opponent(G.activeColor))

(* The conditions under which the claim wants castling refused. *)
CastlingDenied(G, kingside) ==
    \/ RightMissing(G, kingside)
    \/ CastlingBlocked(G, kingside)
    \/ KingAttacked(G.board, G.activeColor)
    \/ CastlingThroughAttack(G, kingside)

(* C5: a castling move is refused by IsLegalMove and by MakeMove when  *)
(* the right is not held, a square between king and rook is occupied,  *)
(* the king is attacked, or a square the king passes over or lands on  *)
(* is attacked; the refused call leaves the game, king and rook        *)
(* included, as it was.                                                *)
C5_CastlingDenied ==
    Idle =>
        \A kingside \in BOOLEAN :
            LET parsed == parseCastlingMove(game, kingside)
            IN (parsed.err = "" /\ CastlingDenied(game, kingside)) =>
                  /\ IsLegalMove(game, parsed.move) = F
                  /\ MakeMove(game, parsed.move) = [outcome |-> "error", game |-> game]

(* The right is held, the squares between are empty, the king is not   *)
(* attacked, and only an attacked square on the king's way forbids     *)
(* castling; the castling move has just been refused.                  *)
C5_Witness ==
    /\ MakeMoveEnded("error")
    /\ ret.kind = Castling
    /\ \E kingside \in BOOLEAN :
          /\ ~RightMissing(game, kingside)
          /\ ~CastlingBlocked(game, kingside)
          /\ ~KingAttacked(game.board, game.activeColor)
          /\ CastlingThroughAttack(game, kingside)

(* ------------------------------------------------------------------ *)
(* C6                                                                  *)
(* ------------------------------------------------------------------ *)
OneKingEach(b) ==
    \A color \in {White, Black} : Cardinality(KingSquares(b, color)) = 1

(* C6: the starting position holds one king of each colour, and a      *)
(* successful MakeMove on a board with exactly one white and one black *)
(* king leaves exactly one white and one black king; so every sequence *)
(* of successful moves from NewGame keeps one king of each colour.     *)
C6_OneKingEach ==
    [][(MakeMoveStep /\ ret'.outcome = "ok" /\ OneKingEach(game.board)) =>
          OneKingEach(game'.board)]_vars

(* A move has been played in a game that began with NewGame. *)
C6_Witness ==
    /\ MakeMoveEnded("ok")
    /\ ~game.startedFromFEN
    /\ Len(game.moveHistory) > 0
    /\ OneKingEach(game.board)

(* ------------------------------------------------------------------ *)
(* C7                                                                  *)
(* ------------------------------------------------------------------ *)
Sides == {White, Black} \X BOOLEAN

(* The cases in which the claim has a move clear the right of colour   *)
(* color on the given side, in game G before the move.                 *)
ClearsRight(G, move, color, kingside) ==
    \/ move.From = KingHome(color) /\ G.board[move.From] = Pc(King, color)
    \/ move.From = RookHome(color, kingside) /\ G.board[move.From] = Pc(Rook, color)
    \/ move.To = RookHome(color, kingside) /\ G.board[move.To] = Pc(Rook, color)

(* C7: after a successful MakeMove a castling right is held exactly    *)
(* when it was held before and the move was none of: the king of that  *)
(* colour leaving its home square, the rook of that side leaving its   *)
(* home square, a capture of the rook on that home square.  So no      *)
(* other move changes a right, and no move gives one back.             *)
C7_CastlingRightsCleared ==
    [][(MakeMoveStep /\ ret'.outcome = "ok") =>
          \A side \in Sides :
              RightHeld(game'.castlingRights, side[1], side[2]) =
                  (/\ RightHeld(game.castlingRights, side[1], side[2])
                   /\ ~ClearsRight(game, LastMove(game'), side[1], side[2]))]_vars

(* ------------------------------------------------------------------ *)
(* C8                                                                  *)
(* ------------------------------------------------------------------ *)
(* The move is a pawn's advance of two squares along its file, in game *)
(* G before the move.                                                  *)
DoubleAdvance(G, move) ==
    /\ G.board[move.From].Type = Pawn
    /\ File(move.From) = File(move.To)
    /\ abs(Rank(move.To) - Rank(move.From)) = 2

(* C8: after a successful MakeMove the en-passant target is the square *)
(* passed over when the move was a pawn's two-square advance, and none *)
(* after every other move.                                             *)
C8_EnPassantTarget ==
    [][(MakeMoveStep /\ ret'.outcome = "ok") =>
          game'.enPassantSquare =
              IF DoubleAdvance(game, LastMove(game'))
              THEN (LastMove(game').From + LastMove(game').To) \div 2
              ELSE NoSquare]_vars

(* ------------------------------------------------------------------ *)
(* C9                                                                  *)
(* ------------------------------------------------------------------ *)
(* The move is made by a pawn or takes an enemy piece, in game G       *)
(* before the move.                                                    *)
PawnMoveOrCapture(G, move) ==
    \/ G.board[move.From].Type = Pawn
    \/ /\ ~IsEmpty(G.board[move.To])
       /\ G.board[move.To].Color = Opponent(G.board[move.From].Color)

(* The destination holds no piece of the mover's colour. *)
NotOntoOwnPiece(G, move) ==
    G.board[move.To].Color # G.board[move.From].Color

(* C9: a successful MakeMove of a move that does not land on a piece   *)
(* of the mover's colour sets the half-move clock to 0 when the move   *)
(* is made by a pawn or takes an enemy piece, and otherwise increases  *)
(* it by 1.                                                            *)
C9_HalfMoveClock ==
    [][(MakeMoveStep /\ ret'.outcome = "ok" /\ NotOntoOwnPiece(game, LastMove(game'))) =>
          game'.halfMoveClock =
              IF PawnMoveOrCapture(game, LastMove(game')) THEN 0
              ELSE game.halfMoveClock + 1]_vars

(* ------------------------------------------------------------------ *)
(* C10                                                                 *)
(* ------------------------------------------------------------------ *)
SecondRank(color) == IF color = White THEN 1 ELSE 6

(* C10: IsLegalMove accepts a pawn's two-square advance only from the  *)
(* second rank of its colour and only when the square passed over and  *)
(* the destination are both empty.                                     *)
C10_PawnDoubleAdvance ==
    Idle =>
        \A move \in MoveInputs(game) :
            (DoubleAdvance(game, move) /\ IsLegalMove(game, move) = T) =>
                /\ Rank(move.From) = SecondRank(game.board[move.From].Color)
                /\ IsEmpty(game.board[(move.From + move.To) \div 2])
                /\ IsEmpty(game.board[move.To])

(* ------------------------------------------------------------------ *)
(* C11                                                                 *)
(* ------------------------------------------------------------------ *)
(* The rank a pawn of the colour promotes on. *)
LastRank(color) == IF color = White THEN 7 ELSE 0

(* C11: a successful MakeMove of a pawn move is a promotion move, or   *)
(* leaves another piece than the pawn on the destination, only when    *)
(* the destination is on the back rank of the pawn's colour.           *)
C11_PromotionOnlyOnLastRank ==
    [][(/\ MakeMoveStep
        /\ ret'.outcome = "ok"
        /\ game.board[LastMove(game').From].Type = Pawn
        /\ \/ ret'.kind = Promotion
           \/ game'.board[LastMove(game').To].Type # Pawn) =>
          Rank(LastMove(game').To) = LastRank(game.activeColor)]_vars

(* ------------------------------------------------------------------ *)
(* C12                                                                 *)
(* ------------------------------------------------------------------ *)
(* The square the king lands on, and the square next to it on the      *)
(* inner side, where the rook lands.                                   *)
KingDestination(color, kingside) ==
    IF kingside THEN KingHome(color) + 2 ELSE KingHome(color) - 2

RookDestination(color, kingside) ==
    IF kingside THEN KingHome(color) + 1 ELSE KingHome(color) - 1

(* The board b0 has the king and the rook of the colour at home, and   *)
(* the board b1 has them castled on the given side.                    *)
Castled(b0, b1, color, kingside) ==
    /\ b0[KingHome(color)] = Pc(King, color)
    /\ b0[RookHome(color, kingside)] = Pc(Rook, color)
    /\ b1[KingDestination(color, kingside)] = Pc(King, color)
    /\ b1[RookDestination(color, kingside)] = Pc(Rook, color)
    /\ IsEmpty(b1[KingHome(color)])
    /\ IsEmpty(b1[RookHome(color, kingside)])

(* C12: after a successful castling move the king stands on its        *)
(* destination, a rook of its colour has gone from its home corner to  *)
(* the square next to the king on the inner side, and the king's home  *)
(* square and the rook's corner are empty.                             *)
C12_CastlingMovesKingAndRook ==
    [][(MakeMoveStep /\ ret'.outcome = "ok" /\ ret'.kind = Castling) =>
          Castled(game.board, game'.board, game.activeColor,
                  File(LastMove(game').To) > File(LastMove(game').From))]_vars

(* ------------------------------------------------------------------ *)
(* C13                                                                 *)
(* ------------------------------------------------------------------ *)
(* The move is an en-passant capture in game G before the move: a pawn *)
(* goes diagonally onto an empty square.                               *)
EnPassantCapture(G, move) ==
    /\ G.board[move.From].Type = Pawn
    /\ File(move.From) # File(move.To)
    /\ IsEmpty(G.board[move.To])

(* The square one rank behind square to, seen by the colour moving.    *)
Behind(to, color) == IF color = White THEN to - 8 ELSE to + 8

(* C13: after a successful en-passant capture the capturing pawn       *)
(* stands on the en-passant target, the enemy pawn one rank behind it  *)
(* on the same file is gone, the source square is empty, and every     *)
(* other square is as before.                                          *)
C13_EnPassantCapture ==
    [][(MakeMoveStep /\ ret'.outcome = "ok"
        /\ EnPassantCapture(game, LastMove(game'))) =>
          LET move == LastMove(game')
              behind == Behind(move.To, game.activeColor)
          IN /\ move.To = game.enPassantSquare
             /\ game.board[behind] = Pc(Pawn, Opponent(game.activeColor))
             /\ game'.board =
                   [game.board EXCEPT ![move.To] = Pc(Pawn, game.activeColor),
                                      ![move.From] = EmptyPiece,
                                      ![behind] = EmptyPiece]]_vars

(* ------------------------------------------------------------------ *)
(* C14                                                                 *)
(* ------------------------------------------------------------------ *)
(* C14: a successful MakeMove gives the move to the other colour; the  *)
(* full-move counter grows by exactly 1 when Black has moved and stays *)
(* as it was when White has moved.                                     *)
C14_ColourAndMoveCount ==
    [][(MakeMoveStep /\ ret'.outcome = "ok") =>
          /\ game'.activeColor = Opponent(game.activeColor)
          /\ game'.moveCount =
                IF game.activeColor = Black THEN game.moveCount + 1
                ELSE game.moveCount]_vars

(* White and then Black have moved: the counter has grown once. *)
C14_Witness ==
    /\ MakeMoveEnded("ok")
    /\ Len(game.moveHistory) = 2
    /\ LastMove(game).Piece.Color = Black
    /\ game.activeColor = White
    /\ game.moveCount = 2

(* ------------------------------------------------------------------ *)
(* C15                                                                 *)
(* ------------------------------------------------------------------ *)
(* The fields of a position that a FEN record carries. *)
Position(G) ==
    [board |-> G.board, activeColor |-> G.activeColor,
     castlingRights |-> G.castlingRights, enPassantSquare |-> G.enPassantSquare,
     halfMoveClock |-> G.halfMoveClock, moveCount |-> G.moveCount]

(* Loading fen into a fresh game succeeds, gives the position of G and *)
(* a game whose ToFEN is fen again.                                    *)
LoadsBackAs(loaded, G, fen) ==
    /\ loaded.outcome = "ok"
    /\ Position(loaded.game) = Position(G)
    /\ ToFEN(loaded.game) = fen

(* C15: in every position the games of the model reach, ParseFEN of    *)
(* the output of ToFEN into a fresh game succeeds and yields an equal  *)
(* board, active colour, castling rights, en-passant target and        *)
(* clocks, and ToFEN of the loaded game is the same string.            *)
C15_FENRoundTrip ==
    Idle => LoadsBackAs(ParseFEN(NewGame, ToFEN(game)), game, ToFEN(game))

(* A position reached by moves, with an en-passant target and a        *)
(* castling right lost on the way.                                     *)
C15_Witness ==
    /\ Idle
    /\ Len(game.moveHistory) > 0
    /\ game.enPassantSquare # NoSquare
    /\ game.castlingRights # AllRights
    /\ ParseFEN(NewGame, ToFEN(game)).outcome = "ok"

(* ------------------------------------------------------------------ *)
(* C16                                                                 *)
(* ------------------------------------------------------------------ *)
ParseFENStep == Idle /\ ret'.op = "ParseFEN"

ParseFENEnded(outcome) == ret.op = "ParseFEN" /\ ret.outcome = outcome

(* C16: a ParseFEN call that returns an error leaves the game exactly  *)
(* as it was before the call.                                          *)
C16_RejectedFENChangesNothing ==
    [][(ParseFENStep /\ ret'.outcome = "error") => game' = game]_vars

(* ------------------------------------------------------------------ *)
(* C17                                                                 *)
(* ------------------------------------------------------------------ *)
(* A fresh game set to the position of G: nothing of the game that was *)
(* loaded over remains in it.                                          *)
FreshAt(G) ==
    [NewGame EXCEPT !.board = G.board, !.activeColor = G.activeColor,
                    !.castlingRights = G.castlingRights,
                    !.enPassantSquare = G.enPassantSquare,
                    !.halfMoveClock = G.halfMoveClock, !.moveCount = G.moveCount]

(* C17: after a successful ParseFEN the move history is empty, the     *)
(* status is the one the status update computes for the loaded         *)
(* position, StartedFromFEN is true and StartingFEN is the FEN that    *)
(* was loaded.                                                         *)
C17_SuccessfulLoad ==
    [][(ParseFENStep /\ ret'.outcome = "ok") =>
          /\ MoveHistory(game') = <<>>
          /\ StartedFromFEN(game')
          /\ StartingFEN(game') \in FENInputs
          /\ ParseFEN(game, StartingFEN(game')).game = game'
          /\ game'.status = updateGameStatus(FreshAt(game')).game.status]_vars

(* A position with the king of the side to move attacked has been     *)
(* loaded: the status is the one of the loaded position.               *)
C17_Witness ==
    /\ ParseFENEnded("ok")
    /\ StartedFromFEN(game)
    /\ StartingFEN(game) = FENCastleInCheck
    /\ game.status = Check
    /\ MoveHistory(game) = <<>>

(* ------------------------------------------------------------------ *)
(* C18                                                                 *)
(* ------------------------------------------------------------------ *)
UndoMoveStep == Idle /\ ret'.op = "UndoMove"

UndoMoveEnded(outcome) == ret.op = "UndoMove" /\ ret.outcome = outcome

(* C18: when as many moves have been undone as were made, the game is  *)
(* in its starting state again: board, active colour, castling rights, *)
(* en-passant target, clocks, history length and ToFEN are those the   *)
(* game had before the first move.                                     *)
C18_UndoRestoresStart ==
    [][(UndoMoveStep /\ ret'.outcome = "ok" /\ Len(game'.moveHistory) = 0) =>
          /\ Position(game') = Position(start)
          /\ Len(game'.moveHistory) = Len(start.moveHistory)
          /\ ToFEN(game') = ToFEN(start)]_vars

(* Two moves have been made and then two undone. *)
C18_Witness ==
    /\ UndoMoveEnded("ok")
    /\ undone = 2
    /\ Len(game.moveHistory) = 0
    /\ ToFEN(game) = ToFEN(start)

(* ------------------------------------------------------------------ *)
(* C19                                                                 *)
(* ------------------------------------------------------------------ *)
(* A file letter a..h followed by a rank digit 1..8. *)
WellFormedSquare(token) ==
    /\ Len(token) = 2
    /\ SubSeq(token, 1, 1) \in {"a", "b", "c", "d", "e", "f", "g", "h"}
    /\ SubSeq(token, 2, 2) \in {"1", "2", "3", "4", "5", "6", "7", "8"}

(* The square a well-formed token names. *)
NamedSquare(token) == CHOOSE sq \in Squares : SquareString(sq) = token

PromotionLetters == {"Q", "R", "B", "N", "q", "r", "b", "n"}

(* The notations the claim says ParseMove rejects. *)
MustBeRejected(G, notation) ==
    /\ notation \notin CastlingNotations
    /\ \/ Len(notation) \notin {4, 5}
       \/ ~WellFormedSquare(SubSeq(notation, 1, 2))
       \/ ~WellFormedSquare(SubSeq(notation, 3, 4))
       \/ G.board[NamedSquare(SubSeq(notation, 1, 2))].Color # G.activeColor
       \/ Len(notation) = 5 /\ SubSeq(notation, 5, 5) \notin PromotionLetters

(* C19: ParseMove returns an error for every notation that is not a    *)
(* castling token and has a length other than 4 or 5, a malformed      *)
(* square token, a source square that is empty or holds a piece of the *)
(* side not to move, or a fifth character that is not one of Q, R, B,  *)
(* N in either case.                                                   *)
C19_ParseMoveRejects ==
    Idle => \A notation \in Notations(game) :
               MustBeRejected(game, notation) => ParseMove(game, notation).err # ""

(* ------------------------------------------------------------------ *)
(* C20                                                                 *)
(* ------------------------------------------------------------------ *)
NewGameEnded == ret.op = "NewGame"

StartingFENString == "rnbqkbnr/pppppppp/8/8/8/8/PPPPPPPP/RNBQKBNR w KQkq - 0 1"

(* C20: the game NewGame returns has White to move, move count 1, an   *)
(* empty history, all four castling rights, the status in-progress,    *)
(* and its ToFEN is the standard starting FEN.                         *)
C20_NewGame ==
    NewGameEnded =>
       /\ game.activeColor = White
       /\ game.moveCount = 1
       /\ MoveHistory(game) = <<>>
       /\ game.castlingRights.WhiteKingside
       /\ game.castlingRights.WhiteQueenside
       /\ game.castlingRights.BlackKingside
       /\ game.castlingRights.BlackQueenside
       /\ game.status = InProgress
       /\ ToFEN(game) = StartingFENString

(* NewGame has returned a game that was not loaded from a FEN record   *)
(* and whose ToFEN is the starting FEN.                                *)
C20_Witness ==
    /\ NewGameEnded
    /\ ToFEN(game) = StartingFENString
    /\ ~StartedFromFEN(game)

(* ------------------------------------------------------------------ *)
(* C21                                                                 *)
(* ------------------------------------------------------------------ *)
(* The SAN string GenerateSAN gives for the last move of the history. *)
LastSAN(G) == GenerateSAN(G).san[Len(G.moveHistory)]

StartsWith(str, prefix) ==
    Len(str) >= Len(prefix) /\ SubSeq(str, 1, Len(prefix)) = prefix

(* The board after the piece on from has gone to to. *)
Moved(b, from, to) == [b EXCEPT ![to] = b[from], ![from] = EmptyPiece]

(* The piece on sq can legally go to the square to. *)
LegallyReaches(G, sq, to) ==
    /\ Attacks(G.board, sq, to)
    /\ G.board[to].Color # G.board[sq].Color
    /\ G.board[to].Type # King
    /\ ~KingAttacked(Moved(G.board, sq, to), G.board[sq].Color)

(* The other pieces of the mover's type and colour that can legally    *)
(* reach the destination of the move.                                  *)
Rivals(G, move) ==
    {sq \in Squares \ {move.From} :
       /\ G.board[sq] = G.board[move.From]
       /\ LegallyReaches(G, sq, move.To)}

(* The disambiguation the claim asks for. *)
Disambiguation(G, move) ==
    (IF \E sq \in Rivals(G, move) : File(sq) # File(move.From)
     THEN FileChars[File(move.From) + 1] ELSE "")
    \o (IF \E sq \in Rivals(G, move) : File(sq) = File(move.From)
        THEN RankChars[Rank(move.From) + 1] ELSE "")

PieceLetter(type) ==
    CASE type = Knight -> "N" [] type = Bishop -> "B"
      [] type = Rook -> "R" [] type = Queen -> "Q"

(* C21: the SAN of a knight, bishop, rook or queen move carries the    *)
(* mover's source rank when another piece of its type and colour that  *)
(* can legally reach the destination stands on the mover's file, the   *)
(* mover's source file when such a piece stands on another file, and   *)
(* nothing between the piece letter and the destination when there is  *)
(* no such piece.                                                      *)
C21_Disambiguation ==
    [][(/\ MakeMoveStep /\ ret'.outcome = "ok"
        /\ game.board[LastMove(game').From].Type \in {Knight, Bishop, Rook, Queen}) =>
          \E r \in {GenerateSAN(game')} :
             \E head \in {PieceLetter(game.board[LastMove(game').From].Type)
                          \o Disambiguation(game, LastMove(game'))} :
                /\ r.outcome = "ok"
                /\ \/ StartsWith(r.san[Len(r.san)],
                                 head \o SquareString(LastMove(game').To))
                   \/ StartsWith(r.san[Len(r.san)],
                                 head \o "x" \o SquareString(LastMove(game').To))]_vars

(* A rook has moved to a square that a rook on its own file and a rook *)
(* on another file could reach as well.                                *)
C21_Witness ==
    /\ MakeMoveEnded("ok")
    /\ Len(game.moveHistory) = 1
    /\ StartingFEN(game) = FENRooks
    /\ LastSAN(game) = "Ra1a3"

(* ------------------------------------------------------------------ *)
(* C22                                                                 *)
(* ------------------------------------------------------------------ *)
Forward(color) == IF color = White THEN 8 ELSE -8

(* The pawn on sq can go to the square to by the rules of chess: an    *)
(* advance, a capture, or an en-passant capture; the board after it.   *)
PawnBoards(G, sq, to) ==
    LET b == G.board
        color == b[sq].Color
        one == sq + Forward(color)
        two == sq + 2 * Forward(color)
        advance == \/ to = one /\ IsEmpty(b[to])
                   \/ /\ to = two /\ Rank(sq) = (IF color = White THEN 1 ELSE 6)
                      /\ IsEmpty(b[one]) /\ IsEmpty(b[to])
        capture == /\ Attacks(b, sq, to) /\ ~IsEmpty(b[to])
                   /\ b[to].Color # color /\ b[to].Type # King
        enPassant == /\ Attacks(b, sq, to) /\ to = G.enPassantSquare
                     /\ IsEmpty(b[to])
                     /\ b[to - Forward(color)] = Pc(Pawn, Opponent(color))
    IN (IF advance \/ capture THEN {Moved(b, sq, to)} ELSE {})
       \cup (IF enPassant
             THEN {[Moved(b, sq, to) EXCEPT ![to - Forward(color)] = EmptyPiece]}
             ELSE {})

(* The side to move has a move that does not leave its king attacked   *)
(* (castling apart, which is no answer to a check).                    *)
CanMove(G) ==
    \E sq \in OwnSquares(G) : \E to \in Squares :
       IF G.board[sq].Type = Pawn
       THEN \E b \in PawnBoards(G, sq, to) : ~KingAttacked(b, G.activeColor)
       ELSE LegallyReaches(G, sq, to)

Checked(G) == KingAttacked(G.board, G.activeColor)

Checkmated(G) == Checked(G) /\ ~CanMove(G)

EndsWith(str, c) == Len(str) >= 1 /\ SubSeq(str, Len(str), Len(str)) = c

(* The characters of str before its last one hold none of the marks. *)
NoMarkInside(str) ==
    \A i \in 1..(Len(str) - 1) : SubSeq(str, i, i) \notin {"+", "#"}

(* The marks of a SAN string are those of the position G the move    *)
(* has led to.                                                         *)
MarksRight(san, G) ==
    /\ EndsWith(san, "#") <=> Checkmated(G)
    /\ EndsWith(san, "+") <=> (Checked(G) /\ ~Checkmated(G))
    /\ NoMarkInside(san)

(* C22: the SAN of a move ends with # exactly when the move delivers   *)
(* checkmate, with + exactly when it leaves the opponent in check that *)
(* is not checkmate, and no SAN holds both marks.                      *)
C22_CheckMarks ==
    [][(MakeMoveStep /\ ret'.outcome = "ok") =>
          \E r \in {GenerateSAN(game')} :
             r.outcome = "ok" /\ MarksRight(r.san[Len(r.san)], game')]_vars

(* ------------------------------------------------------------------ *)
(* C23                                                                 *)
(* ------------------------------------------------------------------ *)
PiecesOf(b, color) == {sq \in Squares : ~IsEmpty(b[sq]) /\ b[sq].Color = color}

(* The move from G to H has taken a piece of the side that did not     *)
(* move.                                                               *)
Took(G, H) ==
    Cardinality(PiecesOf(H.board, H.activeColor))
      < Cardinality(PiecesOf(G.board, H.activeColor))

(* The SAN the claim gives a pawn move from G to H, before the mark. *)
PawnSAN(G, H, move) ==
    (IF Took(G, H) THEN FileChars[File(move.From) + 1] \o "x" ELSE "")
    \o SquareString(move.To)
    \o (IF H.board[move.To].Type # Pawn
        THEN "=" \o PieceLetter(H.board[move.To].Type) ELSE "")

(* C23: the SAN of a pawn move is, before the check mark, the source   *)
(* file letter, x and the destination square when the pawn captures,   *)
(* en passant included, and the destination square alone when it does  *)
(* not, followed by = and the piece letter when the pawn is promoted.  *)
C23_PawnSAN ==
    [][(/\ MakeMoveStep /\ ret'.outcome = "ok"
        /\ game.board[LastMove(game').From].Type = Pawn) =>
          \E r \in {GenerateSAN(game')} :
             \E body \in {PawnSAN(game, game', LastMove(game'))} :
                /\ r.outcome = "ok"
                /\ r.san[Len(r.san)] \in {body, body \o "+", body \o "#"}]_vars

(* Black has taken the pawn on e4 en passant. *)
C23_Witness ==
    /\ MakeMoveEnded("ok")
    /\ LastMove(game).Type = EnPassant
    /\ StartingFEN(game) = FENEnPassant
    /\ LastSAN(game) = "dxe3"

(* ------------------------------------------------------------------ *)
(* C24: for one game id, the critical sections of makeMove, loadFromFEN,*)
(* getAIMove and getAIHint never overlap: at any moment at most one     *)
(* request stands between its Lock and its Unlock, whatever the         *)
(* interleaving of the requests.                                        *)
(* ------------------------------------------------------------------ *)
InCriticalSection(r) ==
    /\ requests[r].handler \in {"makeMove", "loadFromFEN", "getAIMove", "getAIHint"}
    /\ requests[r].pc \in {"locked", "moved", "placed"}

C24_CriticalSectionsDisjoint ==
    \A r1 \in Requests, r2 \in Requests :
       (InCriticalSection(r1) /\ InCriticalSection(r2)) => r1 = r2

(* A move is half made while a FEN load or an AI request on the same   *)
(* game waits for the mutex.                                            *)
C24_Witness ==
    \E r1 \in Requests, r2 \in Requests :
       /\ At(r1, {"makeMove"}, "moved")
       /\ At(r2, {"loadFromFEN", "getAIMove", "getAIHint"}, "lock")
       /\ requests[r1].id = requests[r2].id

(* ------------------------------------------------------------------ *)
(* C25: a request that only reads the game (getGame, getLegalMoves)    *)
(* while a move or a FEN load on the same game is under way answers    *)
(* with the game as it was before that update or as it is after it,    *)
(* never with a state in between.                                      *)
(* ------------------------------------------------------------------ *)
MidUpdate(w) ==
    At(w, {"makeMove"}, "moved") \/ At(w, {"loadFromFEN"}, "placed")

(* The game once the update that w has begun is complete. *)
Completed(w) ==
    IF requests[w].handler = "makeMove"
    THEN MakeMove(requests[w].before, requests[w].move).game
    ELSE ParseFEN(requests[w].before, requests[w].input).game

(* The games a reader may report: the game as it stands when no update *)
(* is under way, else the game before or after that update.            *)
WholeGames ==
    IF \E w \in Requests : MidUpdate(w)
    THEN UNION {{requests[w].before, Completed(w)} : w \in {v \in Requests : MidUpdate(v)}}
    ELSE {game}

ReadStep(r) ==
    /\ requests[r].handler \in {"getGame", "getLegalMoves"}
    /\ requests[r].pc = "read"
    /\ requests'[r].pc = "respond"

C25_ReadsSeeWholeUpdates ==
    [][\A r \in Requests :
          ReadStep(r) =>
             requests'[r].response \in
                {responseOf(requests[r].handler, requests[r].id, G) : G \in WholeGames}]_vars

(* ------------------------------------------------------------------ *)
(* C30: every move of GetAllLegalMoves that lands on an enemy piece is *)
(* of kind capture and carries that piece as captured, which is also   *)
(* the kind and the captured piece that ParseMove gives for the same   *)
(* two squares in the same position.                                   *)
(* ------------------------------------------------------------------ *)
OntoEnemy(G, move) ==
    /\ ~IsEmpty(GetPiece(G.board, move.To))
    /\ GetPiece(G.board, move.To).Color # move.Piece.Color

CarriesCapture(G, move) ==
    /\ move.Type = Capture
    /\ move.Captured = GetPiece(G.board, move.To)
    /\ \E parsed \in {ParseMove(G, SquareString(move.From) \o SquareString(move.To))} :
          /\ parsed.err = ""
          /\ parsed.move.Type = move.Type
          /\ parsed.move.Captured = move.Captured

C30_GeneratedCaptures ==
    Idle =>
       \A legalMoves \in {GetAllLegalMoves(game)} :
          ~legalMoves.overflow =>
             \A i \in 1..Len(legalMoves.moves) :
                OntoEnemy(game, legalMoves.moves[i]) =>
                   CarriesCapture(game, legalMoves.moves[i])

(* ------------------------------------------------------------------ *)
(* C26: when the context is cancelled or past its deadline before the  *)
(* thinking delay has elapsed, GetBestMove of the random strategy, of  *)
(* the heuristic strategy and of the LLM engine handing the game to    *)
(* the random strategy returns the error of the context and no move.   *)
(* ------------------------------------------------------------------ *)
BestMoveEnded == ret.op = "GetBestMove" /\ ret.outcome \in {"ok", "error"}

DoneBeforeDelayElapsed == ret.ctx.cancelled /\ ret.ctx.at < ret.thinkTime

C26_CancelledReturnsContextError ==
    (/\ BestMoveEnded
     /\ ret.via \in {"random", "minimax", "fallback"}
     /\ DoneBeforeDelayElapsed) =>
       /\ ret.outcome = "error"
       /\ ret.err = ret.ctx.err
       /\ ret.move = ZeroMove

(* ------------------------------------------------------------------ *)
(* C27: when the side to move has no legal move, GetBestMove of the    *)
(* random and of the heuristic strategy returns the error "no legal    *)
(* moves available" and no move.                                       *)
(* ------------------------------------------------------------------ *)
C27_NoLegalMoves ==
    (/\ BestMoveEnded
     /\ ret.strategy \in {"random", "minimax"}
     /\ ~CanMove(game)) =>
       /\ ret.outcome = "error"
       /\ ret.err = "no legal moves available"
       /\ ret.move = ZeroMove

(* The heuristic strategy is asked on a stalemate with a context that  *)
(* is already cancelled.                                               *)
C27_Witness ==
    /\ BestMoveEnded
    /\ ret.strategy = "minimax"
    /\ StartingFEN(game) = FENStalemate
    /\ ret.ctx.cancelled /\ ret.ctx.at < 0
    /\ ret.err = "no legal moves available"

(* ------------------------------------------------------------------ *)
(* C28: a move that GetBestMove returns without error, whichever the   *)
(* strategy, is legal in the game it was given: IsLegalMove accepts it.*)
(* ------------------------------------------------------------------ *)
C28_BestMoveIsLegal ==
    (BestMoveEnded /\ ret.outcome = "ok") => IsLegalMove(game, ret.move) = T

(* The LLM engine returns the move of the second line of a response. *)
C28_Witness ==
    /\ BestMoveEnded
    /\ ret.outcome = "ok"
    /\ ret.strategy = "llm"
    /\ ret.via = "response"
    /\ MoveString(ret.move) = "d2d4"

(* ------------------------------------------------------------------ *)
(* C29: the move the heuristic strategy returns has the greatest score *)
(* among the candidate moves (the value of the piece on its            *)
(* destination, a bonus for a centre square, a bonus for a knight or   *)
(* bishop moved in the opening) and is the first generated of the      *)
(* moves with that score.                                              *)
(* ------------------------------------------------------------------ *)
PieceValue(type) ==
    CASE type = Queen -> 900
      [] type = Rook -> 500
      [] type \in {Bishop, Knight} -> 300
      [] type = Pawn -> 100
      [] OTHER -> 0

Centre == {27, 28, 35, 36}

Score(G, move) ==
    PieceValue(G.board[move.To].Type)
    + (IF move.To \in Centre THEN 50 ELSE 0)
    + (IF G.moveCount < 10 /\ G.board[move.From].Type \in {Knight, Bishop}
       THEN 30 ELSE 0)

FirstBest(G, moves, move) ==
    \E i \in 1..Len(moves) :
       /\ moves[i] = move
       /\ \A j \in 1..Len(moves) : Score(G, moves[j]) <= Score(G, move)
       /\ \A j \in 1..(i - 1) : Score(G, moves[j]) < Score(G, move)

C29_FirstOfTheBest ==
    (BestMoveEnded /\ ret.outcome = "ok" /\ ret.strategy = "minimax") =>
       \E generated \in {GenerateAllLegalMoves(game)} :
          FirstBest(game, generated.moves, ret.move)

(* From the starting position d2-d4 and e2-e4 score alike and the      *)
(* first generated, d2-d4, is returned.                                *)
C29_Witness ==
    /\ BestMoveEnded
    /\ ret.outcome = "ok"
    /\ ret.strategy = "minimax"
    /\ game = NewGame
    /\ MoveString(ret.move) = "d2d4"
    /\ Score(game, ret.move) = Score(game, Mv(12, 28, Normal, Pc(Pawn, White), EmptyPiece, Empty))

(* ------------------------------------------------------------------ *)
(* C31                                                                 *)
(* ------------------------------------------------------------------ *)
(* The developing moves ParseMove reads in game G. *)
DevelopMoves(G) ==
    {parsed.move :
        parsed \in {p \in {ParseMove(G, notation) : notation \in DevelopNotations} :
                      p.err = ""}}

(* C31: in every position reached from the starting position by legal  *)
(* moves, MakeMove, GetAllLegalMoves and IsLegalMove return: the check  *)
(* detection and the castling tests never re-enter each other without   *)
(* bound.                                                               *)
C31_CallsReturn ==
    /\ ret.op = "MakeMove" => ret.outcome # Overflow
    /\ Idle => /\ ~GetAllLegalMoves(game).overflow
               /\ \A move \in DevelopMoves(game) : IsLegalMove(game, move) # Overflow

(* ------------------------------------------------------------------ *)
(* C32                                                                 *)
(* ------------------------------------------------------------------ *)
(* The list holds a move from the source to the destination of move. *)
Generates(legalMoves, move) ==
    \E i \in 1..Len(legalMoves.moves) :
        /\ legalMoves.moves[i].From = move.From
        /\ legalMoves.moves[i].To = move.To

(* C32: every move that ParseMove builds and IsLegalMove accepts, the   *)
(* en-passant captures and promotions among them, goes from the source  *)
(* to the destination of one of the moves GetAllLegalMoves returns.     *)
C32_AcceptedMovesAreGenerated ==
    Idle =>
       \E legalMoves \in {GetAllLegalMoves(game)} :
          ~legalMoves.overflow =>
             \A move \in ParsedMoves(game) :
                IsLegalMove(game, move) = T => Generates(legalMoves, move)

(* ------------------------------------------------------------------ *)
(* C33                                                                 *)
(* ------------------------------------------------------------------ *)
GameOver(G) == G.status \in {WhiteWins, BlackWins, Draw}

(* C33: once the status is white-wins, black-wins or draw, a MakeMove   *)
(* call returns an error and leaves the game as it is.                  *)
C33_GameOverIsFinal ==
    [][(GameOver(game) /\ MakeMoveStep) =>
          (ret'.outcome = "error" /\ game' = game)]_vars

(* ------------------------------------------------------------------ *)
(* C34                                                                 *)
(* ------------------------------------------------------------------ *)
PawnsOnBackRank(b) ==
    {sq \in Squares : b[sq].Type = Pawn /\ Rank(sq) \in {0, 7}}

(* C34: after any sequence of successful MakeMove calls from the        *)
(* starting position, with moves from ParseMove, GetAllLegalMoves or an *)
(* AI strategy, no pawn stands on rank 1 or rank 8.                     *)
C34_NoPawnOnBackRank ==
    ~game.startedFromFEN => PawnsOnBackRank(game.board) = {}

(* ------------------------------------------------------------------ *)
(* C35                                                                 *)
(* ------------------------------------------------------------------ *)
(* C35: IsLegalMove returns for every move between two squares of the  *)
(* board, the rook and queen moves along no rank, file or diagonal     *)
(* among them: the scan of isPathClear stops.                           *)
C35_IsLegalMoveReturns ==
    Idle => \A move \in ParsedMoves(game) : IsLegalMove(game, move) # Hang
(* ------------------------------------------------------------------ *)
(* C36: IsLegalMove, GetAllLegalMoves, ParseMove and GenerateSAN leave  *)
(* every field of the game as it was, whatever they return: the moves   *)
(* they try are applied to a copy that shares neither the board nor     *)
(* the history with the game.                                           *)
(* ------------------------------------------------------------------ *)
ReadingCalls == {"IsLegalMove", "GetAllLegalMoves", "ParseMove", "GenerateSAN"}

C37_AIMoveComputedOnAITurn ==
    \A r \in Requests :
       At(r, {"getAIMove"}, "locked") =>
          game.activeColor = gameMetadata[requests[r].id]

(* ------------------------------------------------------------------ *)
(* C38: every read and every write of the server's maps (games,         *)
(* gameMetadata, gameLocks) happens while gamesMux is held: a request   *)
(* that is about to read or write one of them holds gamesMux.           *)
(* ------------------------------------------------------------------ *)
(* The next step of r reads or writes one of the maps. *)
AccessesMaps(r) == requests[r].pc \in {"maps", "response"}

C38_MapsAccessedUnderGamesMux ==
    \A r \in Requests : AccessesMaps(r) => requests[r].gamesMux # ""

(* ------------------------------------------------------------------ *)
(* C39: a request that takes the mutex of a game releases it on every   *)
(* path, so a request waiting for the mutex of that game eventually     *)
(* has it.                                                              *)
(* ------------------------------------------------------------------ *)
Waiting(r) == requests[r].pc = "lock"

C39_WaitingRequestGetsTheLock ==
    \A r \in Requests : Waiting(r) ~> ~Waiting(r)

(* ------------------------------------------------------------------ *)
(* C40: for a game loaded from FEN, the FEN tag of the PGN that getPGN  *)
(* exports is the position its movetext starts from, the retained       *)
(* starting FEN, however many moves have been played since the load.    *)
(* ------------------------------------------------------------------ *)
C40_FENTagIsMovetextStart ==
    (Idle /\ getPGN(game).nonInitial) =>
       \E tag \in {ParseFEN(NewGame, getPGN(game).gameFEN)} :
          /\ tag.outcome = "ok"
          /\ Position(tag.game) = Position(replayStart(game))

====
